---- MODULE Spec2Model ----
(***************************************************************************)
(* Model of the amplify-me generation pipeline: the LLMRouter (mode x      *)
(* stage table, withRetries, trace recording) and runOrchestrator with its *)
(* safeRun* wrappers (retry -> fast-mode call -> deterministic default),   *)
(* the per-image enhancement loop and the guardrail-gated rescue.          *)
(*                                                                         *)
(* One step of the model is one iteration of LLMRouter.withRetries (one    *)
(* backend attempt) together with the orchestrator code that runs when the *)
(* call returns or throws.  The backend is nondeterministic: every attempt *)
(* may throw, answer without usable content, or answer with a value.       *)
(***************************************************************************)
EXTENDS Integers, Sequences, FiniteSets, TLC

\* ------------------------------------------------------------------ bounds
MaxImages == 1
MaxBudget == 3
\* the failing attempts of one invocation under a budget backend
MaxFaults == 5
\* the attempts of an invocation that a mock backend may fail
MaxScript == 8
\* the handler calls of one session
MaxActions == 4

\* ------------------------------------------------------------- small helpers
Max(a, b) == IF a >= b THEN a ELSE b

Range(s) == {s[k] : k \in 1..Len(s)}

\* ---------------------------------------------------------- router: types
Modes == {"fast", "quality"}

AgentIds == {"UNDERSTANDING", "VISUAL_DIRECTOR", "IMAGE_GEN", "FAST_GUARDRAIL",
             "IMAGE_QA", "COPY", "EMPATHY"}

\* `null` in a cell of MODEL_MATRIX
NoSpec == [model |-> "null", temperature |-> 0, retries |-> 0]

\* `undefined` for the optional modeOverride parameter / performance_mode field
NoMode == "undefined"

MODEL_MATRIX ==
  [fast |->
     [UNDERSTANDING   |-> [model |-> "gemini-3-pro-preview",   temperature |-> 20, retries |-> 2],
      VISUAL_DIRECTOR |-> [model |-> "gemini-3-pro-preview",   temperature |-> 40, retries |-> 2],
      IMAGE_GEN       |-> [model |-> "gemini-2.5-flash-image", temperature |-> 50, retries |-> 2],
      FAST_GUARDRAIL  |-> [model |-> "gemini-2.5-flash-lite",  temperature |-> 10, retries |-> 1],
      IMAGE_QA        |-> NoSpec,
      COPY            |-> [model |-> "gemini-2.5-flash",       temperature |-> 70, retries |-> 2],
      EMPATHY         |-> [model |-> "gemini-2.5-flash",       temperature |-> 50, retries |-> 2]],
   quality |->
     [UNDERSTANDING   |-> [model |-> "gemini-3-pro-preview",       temperature |-> 20, retries |-> 3],
      VISUAL_DIRECTOR |-> [model |-> "gemini-3-pro-preview",       temperature |-> 40, retries |-> 3],
      IMAGE_GEN       |-> [model |-> "gemini-3-pro-image-preview", temperature |-> 55, retries |-> 3],
      IMAGE_QA        |-> [model |-> "gemini-2.5-flash-lite",      temperature |-> 10, retries |-> 2],
      FAST_GUARDRAIL  |-> NoSpec,
      COPY            |-> [model |-> "gemini-3-pro-preview",       temperature |-> 70, retries |-> 3],
      EMPATHY         |-> [model |-> "gemini-3-pro-preview",       temperature |-> 50, retries |-> 2]]]

\* ------------------------------------------------------------------- values
\* An image value.  kind "original": the data URL of source image `index`;
\* kind "generated": the data URL built from the inline image of a backend
\* answer, `by` naming the call that produced it; kind "empty": the string "";
\* kind "null": null.
Img(kind, index, by) == [kind |-> kind, index |-> index, by |-> by]
Original(k) == Img("original", k, "file")
Generated(k, by) == Img("generated", k, by)
EmptyImg == Img("empty", -1, "none")
NullImg == Img("null", -1, "none")

\* JavaScript truthiness of a `string | null` image value
Truthy(img) == img.kind \notin {"empty", "null"}

\* errors: the value thrown by one attempt
NoError == [msg |-> "none", attempt |-> -1]
Err(msg, att) == [msg |-> msg, attempt |-> att]


\* ------------------------------------------------------------------ request
\* UserRequest (types.ts).  images / reference_images are the lengths of the
\* File arrays; source image k is identified by its index.  raw_text "" is
\* the empty note; the form submits it only with at least one image, so the
\* request without images and without a note is left out.  The optional
\* fields action, refine_target and traceId are "undefined" / "" when absent.
\* Only the router's constructor reads enable_l4_loop and performance_mode,
\* and the stages read raw_text only to build their defaults, so each mode
\* is paired with both notes and each way of selecting quality occurs once;
\* the requests of the refine flow (with and without the trace id of an
\* earlier response) and the create request that carries a trace id are
\* fast-mode requests.
NoTarget == "undefined"

\* the trace id of an earlier response
PriorTraceId == "trace_0"

CreateOption(text, l4, perf) ==
  [raw_text |-> text, enable_l4_loop |-> l4, performance_mode |-> perf,
   action |-> "create", refine_target |-> NoTarget, traceId |-> ""]

FlowOption(action, target, id) ==
  [raw_text |-> "today I'm tired", enable_l4_loop |-> FALSE, performance_mode |-> "fast",
   action |-> action, refine_target |-> target, traceId |-> id]

RequestOptions ==
  {CreateOption("", FALSE, "fast"),
   CreateOption("today I'm tired", FALSE, "fast"),
   CreateOption("", TRUE, "fast"),
   CreateOption("today I'm tired", FALSE, "quality"),
   CreateOption("today I'm tired", FALSE, NoMode),
   FlowOption("refine", "copy", PriorTraceId),
   FlowOption("refine", "image", ""),
   FlowOption("create", NoTarget, PriorTraceId)}

MakeRequest(n, o) ==
  [images           |-> n,
   reference_images |-> 0,
   raw_text         |-> o.raw_text,
   platform         |-> "wechat_moments",
   mood_user        |-> "tired",
   intent_user      |-> "seek_empathy",
   language         |-> "en",
   enable_l4_loop   |-> o.enable_l4_loop,
   performance_mode |-> o.performance_mode,
   action           |-> o.action,
   refine_target    |-> o.refine_target,
   traceId          |-> o.traceId]

Requests ==
  {r \in {MakeRequest(n, o) : n \in 0..MaxImages, o \in RequestOptions} :
     r.raw_text # "" \/ r.images > 0}

ImageIndexes(r) == 0..(r.images - 1)

\* ------------------------------------------------------------------ prompts
\* A prompt is a sequence of text fragments; "[SUBJECT]" is the placeholder.
SUBJECT == "[SUBJECT]"

FALLBACK_DIRECTOR_TEMPLATE == <<"Cinema-grade relight. Subject:", SUBJECT, "NANO_NEGATIVE_V3">>

\* String.prototype.replace(token, by) with a string pattern: only the first
\* occurrence is replaced.
ReplaceFirst(p, token, by) ==
  IF token \notin Range(p) THEN p
  ELSE LET k == CHOOSE j \in 1..Len(p) :
                   /\ p[j] = token
                   /\ \A h \in 1..(j - 1) : p[h] # token
       IN [p EXCEPT ![k] = by]

validateAndConstructPrompt(plan, platform, subject, referenceCount) ==
  LET p == plan.nano_prompt_en_v2
      finalPrompt == ReplaceFirst(p, SUBJECT, IF subject = "" THEN "primary subject" ELSE subject)
      referenceNote == IF referenceCount > 0 THEN <<"Use reference images">> ELSE <<>>
  IN finalPrompt \o <<"[ACTION]", platform>> \o referenceNote

mapPlatformToUnderstanding(platform) ==
  IF platform = "xiaohongshu" THEN "rednote" ELSE "wechat"

\* ------------------------------------------------------ stage result values
\* Field `by` of a stage result is bookkeeping of the model: the call that
\* produced the value ("primary" = call under the active mode, "fast" = the
\* fast-mode fallback call, "rescue", "default" = deterministic default).
NoUnderstanding ==
  [story_core |-> "", user_intent |-> "", platform |-> "", mood |-> "",
   suggested_tone |-> "", per_image |-> <<>>, by |-> "none"]

PerImage(k, what, risks) == [image_index |-> k, what_matters |-> what, risks |-> risks]

\* mutant: the story core is the raw text even when it is empty
buildFallbackUnderstanding_RawText(r) ==
  [story_core     |-> r.raw_text,
   user_intent    |-> IF r.intent_user = "" THEN "unknown" ELSE r.intent_user,
   platform       |-> mapPlatformToUnderstanding(r.platform),
   mood           |-> IF r.mood_user = "" THEN "neutral" ELSE r.mood_user,
   suggested_tone |-> "professional_clean",
   per_image      |-> [j \in 1..r.images |-> PerImage(j - 1, <<"subject">>, <<>>)],
   by             |-> "default"]

buildFallbackUnderstanding(r) ==
  [story_core     |-> IF r.raw_text = "" THEN "No user input provided." ELSE r.raw_text,
   user_intent    |-> IF r.intent_user = "" THEN "unknown" ELSE r.intent_user,
   platform       |-> mapPlatformToUnderstanding(r.platform),
   mood           |-> IF r.mood_user = "" THEN "neutral" ELSE r.mood_user,
   suggested_tone |-> "professional_clean",
   per_image      |-> [j \in 1..r.images |-> PerImage(j - 1, <<"subject">>, <<>>)],
   by             |-> "default"]

\* understanding.per_image.find(p => p.image_index === k)?.what_matters[0] || "subject"
SubjectOf(u, k) ==
  LET hits == {j \in 1..Len(u.per_image) : u.per_image[j].image_index = k}
  IN IF hits = {} THEN "subject"
     ELSE LET first == u.per_image[CHOOSE j \in hits : \A h \in hits : j <= h]
          IN IF Len(first.what_matters) = 0 \/ first.what_matters[1] = ""
             THEN "subject" ELSE first.what_matters[1]

Plan(k, prompt) == [image_index |-> k, nano_prompt_en_v2 |-> prompt]

NoDirector == [images |-> <<>>, by |-> "none"]

buildFallbackDirector(r, u) ==
  [images |-> [j \in 1..r.images |->
                 Plan(j - 1, ReplaceFirst(FALLBACK_DIRECTOR_TEMPLATE, SUBJECT, SubjectOf(u, j - 1)))],
   by |-> "default"]

\* the loop `for (const plan of out.images) plan.nano_prompt_en_v2 = validateAndConstructPrompt(...)`
RewritePrompts(r, u, out) ==
  [out EXCEPT !.images =
     [j \in 1..Len(out.images) |->
        Plan(out.images[j].image_index,
             validateAndConstructPrompt(out.images[j], r.platform,
                                        SubjectOf(u, out.images[j].image_index),
                                        r.reference_images))]]

\* directorOut.images.find(p => p.image_index === k): 0 when there is none,
\* else the position of the first plan for k
FindPlan(out, k) ==
  LET hits == {j \in 1..Len(out.images) : out.images[j].image_index = k}
  IN IF hits = {} THEN 0 ELSE CHOOSE j \in hits : \A h \in hits : j <= h

\* --- what the backend may answer (schema-shaped values)
\* the elements of a set of integers in increasing order
RECURSIVE Ascending(_)
Ascending(S) ==
  IF S = {} THEN <<>>
  ELSE LET m == CHOOSE x \in S : \A y \in S : x <= y
       IN <<m>> \o Ascending(S \ {m})

UnderstandingValues(r, by) ==
  {[story_core |-> "llm story", user_intent |-> "llm intent", platform |-> "wechat",
    mood |-> "llm mood", suggested_tone |-> "casual_witty", per_image |-> pi, by |-> by] :
     pi \in {[j \in 1..r.images |-> PerImage(j - 1, <<"cat">>, <<"glare_risk">>)]}}

\* a plan list for any subset of the image indexes: the backend may omit some
DirectorValues(r, by) ==
  {[images |-> [j \in 1..Len(Ascending(S)) |-> Plan(Ascending(S)[j], <<"llm prompt", SUBJECT>>)],
    by |-> by] : S \in SUBSET ImageIndexes(r)}

Verdict(pass, score, verdict, by) ==
  [pass |-> pass, score |-> score, verdict |-> verdict, by |-> by]

\* FastGuardrailOut.verdict
SharedVerdicts == {"OK", "COLOR_CAST", "ARTIFACTS", "TOO_WEAK_CHANGE", "WORSE_THAN_ORIGINAL"}

\* ImageQAOut.verdict
QaVerdicts == {"OK", "COLOR_CAST", "ARTIFACTS", "TOO_WEAK_CHANGE", "NEEDS_RECOMPOSE", "NEEDS_CLEANUP"}

\* the response schema of both evaluators has verdict: { type: Type.STRING }:
\* the backend may answer any string, "HALLUCINATION" standing for one that
\* is in neither type
AnyVerdicts == SharedVerdicts \cup QaVerdicts \cup {"HALLUCINATION"}

GuardrailValues(by) ==
  {Verdict(p, IF p THEN 90 ELSE 30, v, by) : p \in BOOLEAN, v \in AnyVerdicts}

AutoPass == Verdict(TRUE, 0, "OK", "default")

Reply(kind, text, by) == [kind |-> kind, text |-> text, by |-> by]

NoReply == Reply("empty", "", "none")

\* a reply of white space only
BlankReply == Reply("blank", " ", "none")

\* String.prototype.trim on the texts of the model
trim(text) == IF text = " " THEN "" ELSE text

Copy(title, main, tags, by) == [title |-> title, main_text |-> main, hash_tags |-> tags, by |-> by]

DefaultCopy(r) == Copy("Draft", r.raw_text, <<>>, "default")

DefaultReply(r) ==
  IF r.raw_text # "" THEN Reply("template_zh", r.raw_text, "default")
  ELSE Reply("template_en", "", "default")


\* -------------------------------------------------------------------- state
VARIABLES
  req,        \* the UserRequest of the invocation
  mode,       \* LLMRouter.mode
  traceId,    \* runOrchestrator's traceId
  traces,     \* LLMRouter.traces
  pc,         \* position of runOrchestrator: the call in progress, or loop/assemble/done/failed
  attempt,    \* withRetries: loop variable `attempt` of the call in progress
  lastError,  \* withRetries: `lastError` of the call in progress
  local,      \* runOrchestrator's local variables
  response,   \* the OrchestratorResponse returned
  calls,      \* bookkeeping: the router calls issued so far, each with the position of its first trace record
  harness,    \* the call under test of the withRetries specification
  backend,    \* the backend behind the router: how its attempts may answer
  session,    \* the App component's state (index.tsx) of the session specification
  matrix,     \* the table the router reads its ModelSpecs from
  inflight,   \* the backend requests sent and not yet answered, or Untracked
  other       \* a second invocation, suspended at one of its awaits, or NoInvocation

vars == <<req, mode, traceId, traces, pc, attempt, lastError, local, response, calls, harness,
          backend, session, matrix, inflight, other>>

NoResponse == [traceId |-> "", variants |-> <<>>]

\* no session: the invocation was made on its own
NoSession == [request |-> "none"]

\* inflight when a backend attempt is one step, request and answer together
Untracked == {[site |-> "untracked", image |-> -1, attempt |-> -1]}

\* no second invocation
NoInvocation == [pc |-> "none"]

NoHarness == [shape |-> "none", retries |-> 0, modeOverride |-> NoMode,
              status |-> "idle", result |-> -1, thrown |-> NoError,
              answers |-> <<>>, nullResult |-> FALSE]

\* ------------------------------------------------------------------- router
\* mutant: the explicit performance mode wins over the advanced-loop flag
ResolveMode_ExplicitFirst(r) ==
  IF r.performance_mode # NoMode THEN r.performance_mode
  ELSE IF r.enable_l4_loop THEN "quality" ELSE "fast"

\* constructor: request.enable_l4_loop ? 'quality' : (request.performance_mode || 'fast')
ResolveMode(r) ==
  IF r.enable_l4_loop THEN "quality"
  ELSE IF r.performance_mode = NoMode THEN "fast" ELSE r.performance_mode

getSpecForMode(m, agentId) == matrix[m][agentId]

getSpec(agentId) == matrix[mode][agentId]

\* mutant: the record carries the router's mode, whatever the call's mode
recordTrace_ActiveMode(agentId, spec, att, ok, modeOverride) ==
  [agent       |-> agentId,
   mode        |-> mode,
   model       |-> spec.model,
   temperature |-> spec.temperature,
   retriesUsed |-> att,
   ok          |-> ok]

\* the record pushed by recordTrace (durationMs, responseMimeType and the
\* error message left out)
recordTrace(agentId, spec, att, ok, modeOverride) ==
  [agent       |-> agentId,
   mode        |-> IF modeOverride # NoMode THEN modeOverride ELSE mode,
   model       |-> spec.model,
   temperature |-> spec.temperature,
   retriesUsed |-> att,
   ok          |-> ok]

\* mutant: `retries` counted as the retries after a first attempt
Attempts_AfterFirst(spec) == 1 + spec.retries

\* mutant: one attempt more than the budget
Attempts_OneMore(spec) == 1 + Max(1, IF spec.retries = 0 THEN 1 ELSE spec.retries)

\* const attempts = Math.max(1, spec.retries || 1)
Attempts(spec) == Max(1, IF spec.retries = 0 THEN 1 ELSE spec.retries)

\* What the `action` closure of a call makes of a backend answer.
\* answer "throw": generateContent rejects; "empty": the answer carries no
\* text / no inline image; "unparseable": text that JSON.parse rejects;
\* "ok": the answer carries val.  The pipeline specification draws the
\* answers of every call from {"throw", "empty", "ok"}; the withRetries
\* specification adds "unparseable".
NoValue == [kind |-> "none", by |-> "none"]
Threw(msg) == [kind |-> "throw", msg |-> msg, val |-> NoValue]
Returned(val) == [kind |-> "value", msg |-> "none", val |-> val]

JsonAnswers == {"throw", "empty", "ok"}
TextAnswers == {"throw", "empty", "ok"}
ImageAnswers == {"throw", "empty", "ok"}

\* The backend of an invocation.  kind "free": every attempt may answer in
\* any way.  kind "budget": at most MaxFaults attempts of the invocation
\* throw, the others answer with a value.  kind "mock": a deterministic
\* backend, the k-th attempt of an invocation throws iff k is in `faults`,
\* its guardrail verdicts have pass = `pass` and its plan lists cover the
\* image indexes in `plans`; `run` counts the invocations made against it
\* and `first` keeps the response of the first one.
FreeBackend ==
  [kind |-> "free", faults |-> {}, pass |-> TRUE, plans |-> {}, run |-> 1, first |-> NoResponse]

BudgetBackend == [FreeBackend EXCEPT !.kind = "budget"]

\* a budget backend whose evaluators answer with any pass flag and verdict;
\* the evaluators of the other backends answer OK with pass = true or
\* ARTIFACTS with pass = false
VerdictBackend == [FreeBackend EXCEPT !.kind = "verdicts"]

MockBackend(faults, pass, plans) ==
  [kind |-> "mock", faults |-> faults, pass |-> pass, plans |-> plans, run |-> 1,
   first |-> NoResponse]

Faults == Cardinality({k \in 1..Len(traces) : ~traces[k].ok})

BackendAnswers(all) ==
  CASE backend.kind = "free"   -> all
    [] backend.kind \in {"budget", "verdicts"} ->
         IF Faults < MaxFaults THEN all \cap {"throw", "ok"} ELSE {"ok"}
    [] OTHER                   -> IF Len(traces) + 1 \in backend.faults THEN {"throw"} ELSE {"ok"}

BackendPlans(values) ==
  IF backend.kind # "mock" THEN values
  ELSE {d \in values : {d.images[j].image_index : j \in 1..Len(d.images)}
                         = backend.plans \cap ImageIndexes(req)}

BackendVerdicts(values) ==
  LET usual == {g \in values : g.verdict = IF g.pass THEN "OK" ELSE "ARTIFACTS"}
  IN CASE backend.kind = "verdicts" -> values
       [] backend.kind = "mock"     -> {g \in usual : g.pass = backend.pass}
       [] OTHER                     -> usual

jsonAction(answer, val) ==
  CASE answer = "throw"       -> Threw("backend error")
    [] answer = "empty"       -> Threw("Empty JSON response")
    [] answer = "unparseable" -> Threw("SyntaxError")
    [] OTHER                  -> Returned(val)

textAction(answer, val) ==
  CASE answer = "throw" -> Threw("backend error")
    [] answer = "empty" -> Returned(NoReply)
    [] answer = "blank" -> Returned(BlankReply)
    [] OTHER            -> Returned(val)

imageAction(answer, val) ==
  CASE answer = "throw" -> Threw("backend error")
    [] answer = "empty" -> Returned(NullImg)
    [] OTHER            -> Returned(val)

\* the isValid arguments
AlwaysValid(v) == TRUE
TextValid(t) == t.text # "" /\ trim(t.text) # ""

\* mutant: a response without an inline image passes validation
ImageValid_Always(img) == TRUE

ImageValid(img) == Truthy(img)

\* mutant: a failing attempt leaves no trace record
withRetries_SilentFailure(agentId, spec, res, isValid, modeOverride) ==
  LET ok == res.kind = "value" /\ isValid
      error == IF res.kind = "throw" THEN Err(res.msg, attempt)
               ELSE Err("Invalid response", attempt)
      status == IF ok THEN "return"
                ELSE IF attempt + 1 < Attempts(spec) THEN "retry" ELSE "throw"
  IN [status    |-> status,
      traces    |-> IF ok THEN Append(traces, recordTrace(agentId, spec, attempt, ok, modeOverride))
                    ELSE traces,
      attempt   |-> attempt + 1,
      lastError |-> IF ok THEN lastError ELSE error,
      result    |-> res.val]

\* One iteration of the for loop of withRetries, and the loop's exit; res is
\* what action() did and isValid the value of isValid(result).
\* status "return" = the result is returned, "retry" = the loop goes on,
\* "throw" = the loop is over and lastError is thrown.
withRetries(agentId, spec, res, isValid, modeOverride) ==
  LET ok == res.kind = "value" /\ isValid
      error == IF res.kind = "throw" THEN Err(res.msg, attempt)
               ELSE Err("Invalid response", attempt)
      status == IF ok THEN "return"
                ELSE IF attempt + 1 < Attempts(spec) THEN "retry" ELSE "throw"
  IN [status    |-> status,
      traces    |-> Append(traces, recordTrace(agentId, spec, attempt, ok, modeOverride)),
      attempt   |-> attempt + 1,
      lastError |-> IF ok THEN lastError ELSE error,
      result    |-> res.val]

\* the backend request of the attempt the router is at, in the call `site`
Request(site) == [site |-> site, image |-> local.i, attempt |-> attempt]

\* mutant: a call that returns keeps only the record of its successful attempt
RouterStep_DropFailed(site, agentId, m, r) ==
  /\ traces' = IF r.status = "return"
               THEN Append(SubSeq(traces, 1, Len(traces) - attempt), r.traces[Len(r.traces)])
               ELSE r.traces
  /\ attempt' = IF r.status = "retry" THEN r.attempt ELSE 0
  /\ lastError' = IF r.status = "retry" THEN r.lastError ELSE NoError
  /\ calls' = IF attempt = 0
              THEN Append(calls, [site |-> site, agent |-> agentId, mode |-> m,
                                  image |-> local.i, first |-> Len(traces) + 1])
              ELSE calls
  /\ inflight' = IF inflight = Untracked THEN Untracked ELSE inflight \ {Request(site)}

\* the router's state after the iteration r of call `site`
RouterStep(site, agentId, m, r) ==
  /\ traces' = r.traces
  /\ attempt' = IF r.status = "retry" THEN r.attempt ELSE 0
  /\ lastError' = IF r.status = "retry" THEN r.lastError ELSE NoError
  /\ calls' = IF attempt = 0
              THEN Append(calls, [site |-> site, agent |-> agentId, mode |-> m,
                                  image |-> local.i, first |-> Len(traces) + 1])
              ELSE calls
  /\ inflight' = IF inflight = Untracked THEN Untracked ELSE inflight \ {Request(site)}

RouterIdle == UNCHANGED <<traces, attempt, lastError, calls, inflight>>

Frame == UNCHANGED <<req, mode, traceId, harness, backend, session, matrix, other>>


\* ------------------------------------------------------------- orchestrator
\* Fields `guards` and `answered` are bookkeeping of the model: the verdicts
\* that safeRunFastGuardrail returned, in order, each with its image index,
\* and the answers the evaluators gave, each with its image index and the
\* evaluator asked.
NoLocal ==
  [understanding  |-> NoUnderstanding,
   directorOut    |-> NoDirector,
   enhancedImages |-> <<>>,
   perImageScores |-> <<>>,
   guards         |-> <<>>,
   answered       |-> <<>>,
   i              |-> 0,
   resultImg      |-> NullImg,
   empathicReply  |-> NoReply,
   copy           |-> Copy("", "", <<>>, "none")]

Goto(p, loc) == pc' = p /\ local' = loc /\ UNCHANGED response

\* mutant: a call that names a mode makes it the router's mode
Call_SwitchMode(site, agentId, m, spec, modeOverride, res, isValid, Return, Catch) ==
  LET r == withRetries(agentId, spec, res, isValid, modeOverride)
  IN /\ inflight = Untracked \/ Request(site) \in inflight
     /\ RouterStep(site, agentId, m, r)
     /\ CASE r.status = "return" -> Return
          [] r.status = "retry"  -> UNCHANGED <<pc, local, response>>
          [] OTHER               -> Catch
     /\ mode' = m
     /\ UNCHANGED <<req, traceId, harness, backend, session, matrix, other>>

\* One attempt of the router call `site` and what runOrchestrator does with
\* its outcome: Return (the code that follows the await, given the result
\* res.val) when the call returns, Catch when it throws.
Call(site, agentId, m, spec, modeOverride, res, isValid, Return, Catch) ==
  LET r == withRetries(agentId, spec, res, isValid, modeOverride)
  IN /\ inflight = Untracked \/ Request(site) \in inflight
     /\ RouterStep(site, agentId, m, r)
     /\ CASE r.status = "return" -> Return
          [] r.status = "retry"  -> UNCHANGED <<pc, local, response>>
          [] OTHER               -> Catch
     /\ Frame

\* --- Understanding (safeRunUnderstanding); on return safeRunVisualDirector
\* starts, which makes no call for a request without images
DirectorReturn(out) ==
  Goto("loop", [local EXCEPT !.directorOut = out,
                             !.enhancedImages = [k \in ImageIndexes(req) |-> EmptyImg],
                             !.perImageScores = <<>>,
                             !.i = 0])

\* mutant: Visual Direction is called whatever the number of images
UnderstandingReturn_AlwaysDirector(u) == Goto("director", [local EXCEPT !.understanding = u])

UnderstandingReturn(u) ==
  IF req.images = 0
  THEN Goto("loop", [local EXCEPT !.understanding = u,
                                  !.directorOut = [images |-> <<>>, by |-> "default"],
                                  !.enhancedImages = <<>>,
                                  !.perImageScores = <<>>,
                                  !.i = 0])
  ELSE Goto("director", [local EXCEPT !.understanding = u])

\* return await llm.callJsonWithMode('fast', 'UNDERSTANDING', ...)
UnderstandingFastReturn(u) == UnderstandingReturn(u)

\* mutant: a failed fast-mode call is made again
UnderstandingFastCatch_Again == Goto("understanding_fast", local)

UnderstandingFastCatch == UnderstandingReturn(buildFallbackUnderstanding(req))

UnderstandingCatch ==
  IF mode = "quality" THEN Goto("understanding_fast", local)
  ELSE UnderstandingReturn(buildFallbackUnderstanding(req))

UnderstandingStep ==
  /\ pc = "understanding"
  /\ \E answer \in BackendAnswers(JsonAnswers), val \in UnderstandingValues(req, "primary") :
       LET res == jsonAction(answer, val)
       IN Call("understanding", "UNDERSTANDING", mode, getSpec("UNDERSTANDING"), NoMode,
               res, AlwaysValid(res.val), UnderstandingReturn(res.val), UnderstandingCatch)

UnderstandingFastStep ==
  /\ pc = "understanding_fast"
  /\ IF getSpecForMode("fast", "UNDERSTANDING") = NoSpec
     THEN RouterIdle /\ UnderstandingFastCatch /\ Frame
     ELSE \E answer \in BackendAnswers(JsonAnswers), val \in UnderstandingValues(req, "fast") :
            LET res == jsonAction(answer, val)
            IN Call("understanding_fast", "UNDERSTANDING", "fast", getSpecForMode("fast", "UNDERSTANDING"), "fast",
                    res, AlwaysValid(res.val), UnderstandingFastReturn(res.val), UnderstandingFastCatch)

\* --- Visual Direction (runVisualDirector / safeRunVisualDirector)
DirectorSuccess(out) == DirectorReturn(RewritePrompts(req, local.understanding, out))

DirectorFastCatch ==
  DirectorReturn(RewritePrompts(req, local.understanding,
                                buildFallbackDirector(req, local.understanding)))

DirectorCatch ==
  IF mode = "quality" THEN Goto("director_fast", local)
  ELSE DirectorFastCatch

DirectorStep ==
  /\ pc = "director"
  /\ \E answer \in BackendAnswers(JsonAnswers), val \in BackendPlans(DirectorValues(req, "primary")) :
       LET res == jsonAction(answer, val)
       IN Call("director", "VISUAL_DIRECTOR", mode, getSpec("VISUAL_DIRECTOR"), NoMode,
               res, AlwaysValid(res.val), DirectorSuccess(res.val), DirectorCatch)

DirectorFastStep ==
  /\ pc = "director_fast"
  /\ IF getSpecForMode("fast", "VISUAL_DIRECTOR") = NoSpec
     THEN RouterIdle /\ DirectorFastCatch /\ Frame
     ELSE \E answer \in BackendAnswers(JsonAnswers), val \in BackendPlans(DirectorValues(req, "fast")) :
            LET res == jsonAction(answer, val)
            IN Call("director_fast", "VISUAL_DIRECTOR", "fast", getSpecForMode("fast", "VISUAL_DIRECTOR"), "fast",
                    res, AlwaysValid(res.val), DirectorSuccess(res.val), DirectorFastCatch)

\* --- the enhancement loop
\* mutant: the result is stored without the fallback to the original
FinishImage_NoFallback(loc, img) ==
  [loc EXCEPT !.enhancedImages[loc.i] = img,
              !.resultImg = NullImg,
              !.i = loc.i + 1]

\* enhancedImages[i] = resultImg || originalBase64[i]; i++
FinishImage(loc, img) ==
  [loc EXCEPT !.enhancedImages[loc.i] = IF Truthy(img) THEN img ELSE Original(loc.i),
              !.resultImg = NullImg,
              !.i = loc.i + 1]

\* mutant: the loop ends at the first image that fell back to its original
EnhanceLoop_StopAtFallback ==
  /\ pc = "loop"
  /\ IF \/ local.i >= req.images
        \/ local.i > 0 /\ local.enhancedImages[local.i - 1].kind = "original"
     THEN Goto("empathy", local)
     ELSE IF FindPlan(local.directorOut, local.i) = 0
          THEN Goto("loop", [local EXCEPT !.i = local.i + 1])
          ELSE Goto("imagegen", [local EXCEPT !.resultImg = NullImg])
  /\ RouterIdle
  /\ Frame

\* for (let i = 0; i < req.images.length; i++) { plan = find(...); if (!plan) continue; ...
EnhanceLoop ==
  /\ pc = "loop"
  /\ IF local.i >= req.images THEN Goto("empathy", local)
     ELSE IF FindPlan(local.directorOut, local.i) = 0
          THEN Goto("loop", [local EXCEPT !.i = local.i + 1])
          ELSE Goto("imagegen", [local EXCEPT !.resultImg = NullImg])
  /\ RouterIdle
  /\ Frame

\* mutant: the guardrail always asks for the QA evaluator
PreferredAgent_Qa == "IMAGE_QA"

\* runFastGuardrail: the evaluator of the active mode
PreferredAgent ==
  IF getSpecForMode(mode, "FAST_GUARDRAIL") # NoSpec THEN "FAST_GUARDRAIL" ELSE "IMAGE_QA"

\* mutant: the QA verdict is returned as the evaluator gave it
MapQaVerdict_Verbatim(qa) == qa

\* the verdict mapping of the IMAGE_QA branch of runFastGuardrail
MapQaVerdict(qa) ==
  [qa EXCEPT !.verdict = IF qa.verdict \in {"OK", "COLOR_CAST", "ARTIFACTS"}
                         THEN qa.verdict ELSE "TOO_WEAK_CHANGE"]

\* after safeRunFastGuardrail returned guard: the score is pushed, and a
\* verdict with pass = false starts the rescue
AfterGuard(loc0, guard) ==
  LET loc == [loc0 EXCEPT
                !.perImageScores =
                   Append(@, [index |-> loc0.i, score |-> guard.score, verdict |-> guard.verdict]),
                !.guards = Append(@, [index |-> loc0.i, pass |-> guard.pass, by |-> guard.by])]
  IN IF ~guard.pass THEN Goto("rescue", loc)
     ELSE Goto("loop", FinishImage(loc, loc.resultImg))

GuardrailReturn(guard) == AfterGuard(local, guard)

\* the answer `out` of evaluator `agentId` for the image at hand is noted
Answered(agentId, out) ==
  [local EXCEPT !.answered = Append(@, [index |-> local.i, agent |-> agentId, out |-> out])]

GuardrailSuccess(out) ==
  AfterGuard(Answered(PreferredAgent, out),
             IF PreferredAgent = "IMAGE_QA" THEN MapQaVerdict(out) ELSE out)

\* mutant: the fast-mode verdict is dropped for the automatic pass
GuardrailFastReturn_AutoPass(guard) == GuardrailReturn(AutoPass)

\* return await llm.callJsonWithMode('fast', 'FAST_GUARDRAIL', ...)
GuardrailFastReturn(guard) == AfterGuard(Answered("FAST_GUARDRAIL", guard), guard)

\* mutant: a guardrail that cannot be asked rejects the image
GuardrailFastCatch_Reject == GuardrailReturn(Verdict(FALSE, 0, "TOO_WEAK_CHANGE", "default"))

GuardrailFastCatch == GuardrailReturn(AutoPass)

GuardrailCatch ==
  IF mode = "quality" THEN Goto("guardrail_fast", local)
  ELSE GuardrailFastCatch

\* after the generation call(s): if (resultImg) { guard = await safeRunFastGuardrail(...) ...
ImageGenReturn(img) ==
  IF ~Truthy(img) THEN Goto("loop", FinishImage(local, img))
  ELSE IF getSpecForMode(mode, PreferredAgent) = NoSpec
       THEN AfterGuard([local EXCEPT !.resultImg = img], AutoPass)
       ELSE Goto("guardrail", [local EXCEPT !.resultImg = img])

\* mutant: an image whose generation failed is scored as an automatic pass
ImageGenFastCatch_Scored == AfterGuard([local EXCEPT !.resultImg = NullImg], AutoPass)

ImageGenFastCatch == ImageGenReturn(NullImg)

\* mutant: the fast-mode call is made whatever the active mode
ImageGenCatch_AlwaysFallback == Goto("imagegen_fast", local)

ImageGenCatch ==
  IF mode = "quality" THEN Goto("imagegen_fast", local)
  ELSE ImageGenFastCatch

ImageGenStep ==
  /\ pc = "imagegen"
  /\ \E answer \in BackendAnswers(ImageAnswers) :
       LET res == imageAction(answer, Generated(local.i, "primary"))
       IN Call("imagegen", "IMAGE_GEN", mode, getSpec("IMAGE_GEN"), NoMode,
               res, ImageValid(res.val), ImageGenReturn(res.val), ImageGenCatch)

ImageGenFastStep ==
  /\ pc = "imagegen_fast"
  /\ IF getSpecForMode("fast", "IMAGE_GEN") = NoSpec
     THEN RouterIdle /\ ImageGenReturn(NullImg) /\ Frame
     ELSE \E answer \in BackendAnswers(ImageAnswers) :
            LET res == imageAction(answer, Generated(local.i, "fast"))
            IN Call("imagegen_fast", "IMAGE_GEN", "fast", getSpecForMode("fast", "IMAGE_GEN"), "fast",
                    res, ImageValid(res.val), ImageGenReturn(res.val), ImageGenFastCatch)

GuardrailStep ==
  /\ pc = "guardrail"
  /\ \E answer \in BackendAnswers(JsonAnswers), val \in BackendVerdicts(GuardrailValues("primary")) :
       LET res == jsonAction(answer, val)
       IN Call("guardrail", PreferredAgent, mode, getSpec(PreferredAgent), NoMode,
               res, AlwaysValid(res.val), GuardrailSuccess(res.val), GuardrailCatch)

GuardrailFastStep ==
  /\ pc = "guardrail_fast"
  /\ IF getSpecForMode("fast", "FAST_GUARDRAIL") = NoSpec
     THEN RouterIdle /\ GuardrailFastCatch /\ Frame
     ELSE \E answer \in BackendAnswers(JsonAnswers), val \in BackendVerdicts(GuardrailValues("fast")) :
            LET res == jsonAction(answer, val)
            IN Call("guardrail_fast", "FAST_GUARDRAIL", "fast", getSpecForMode("fast", "FAST_GUARDRAIL"), "fast",
                    res, AlwaysValid(res.val), GuardrailFastReturn(res.val), GuardrailFastCatch)

\* --- rescue
\* mutant: the rescue call runs under the active mode
rescueMode_Active == mode

rescueMode == IF mode = "fast" THEN "quality" ELSE mode

\* mutant: the rescue output is sent back to the guardrail
RescueReturn_Revalidate(rescueImg) ==
  IF Truthy(rescueImg) THEN Goto("guardrail", [local EXCEPT !.resultImg = rescueImg])
  ELSE Goto("loop", FinishImage(local, local.resultImg))

\* mutant: the rescue output is dropped
RescueReturn_KeepFirst(rescueImg) == Goto("loop", FinishImage(local, local.resultImg))

\* if (rescueImg) resultImg = rescueImg; then enhancedImages[i] = resultImg || original
RescueReturn(rescueImg) ==
  Goto("loop", FinishImage(local, IF Truthy(rescueImg) THEN rescueImg ELSE local.resultImg))

\* mutant: the rescue call is not wrapped in try/catch
RescueCatch_Rethrow == pc' = "failed" /\ UNCHANGED <<local, response>>

\* mutant: a failed rescue gives the image up for the original
RescueCatch_Original == Goto("loop", FinishImage(local, NullImg))

RescueCatch == Goto("loop", FinishImage(local, local.resultImg))

RescueStep ==
  /\ pc = "rescue"
  /\ IF getSpecForMode(rescueMode, "IMAGE_GEN") = NoSpec
     THEN RouterIdle /\ RescueReturn(NullImg) /\ Frame
     ELSE \E answer \in BackendAnswers(ImageAnswers) :
            LET res == imageAction(answer, Generated(local.i, "rescue"))
            IN Call("rescue", "IMAGE_GEN", rescueMode, getSpecForMode(rescueMode, "IMAGE_GEN"), rescueMode,
                    res, ImageValid(res.val), RescueReturn(res.val), RescueCatch)


\* --- text outputs, the Variant and the response
\* the straight-line code that follows the COPY stage: the Variant is built
\* and the response returned
\* mutant: one Variant per source image
BuildResponse_VariantPerImage(loc) ==
  [traceId                |-> traceId,
   understanding          |-> [story_core |-> loc.understanding.story_core,
                               scene |-> "V3",
                               theme |-> loc.understanding.mood],
   visual_director_output |-> loc.directorOut,
   empathic_reply         |-> loc.empathicReply,
   variants               |-> [j \in 1..req.images |->
                                 [id |-> <<traceId, "_v1">>,
                                  tone_direction |-> IF loc.understanding.suggested_tone = ""
                                                     THEN "Cinematic"
                                                     ELSE loc.understanding.suggested_tone,
                                  copy |-> loc.copy,
                                  enhanced_images_base64 |-> loc.enhancedImages]],
   debugInfo              |-> [nano_banana_prompts |->
                                 [j \in 1..Len(loc.directorOut.images) |->
                                    loc.directorOut.images[j].nano_prompt_en_v2],
                               llmTrace |-> traces',
                               perImageScores |-> loc.perImageScores]]

BuildResponse(loc) ==
  [traceId                |-> traceId,
   understanding          |-> [story_core |-> loc.understanding.story_core,
                               scene |-> "V3",
                               theme |-> loc.understanding.mood],
   visual_director_output |-> loc.directorOut,
   empathic_reply         |-> loc.empathicReply,
   variants               |-> << [id |-> <<traceId, "_v1">>,
                                  tone_direction |-> IF loc.understanding.suggested_tone = ""
                                                     THEN "Cinematic"
                                                     ELSE loc.understanding.suggested_tone,
                                  copy |-> loc.copy,
                                  enhanced_images_base64 |-> loc.enhancedImages] >>,
   debugInfo              |-> [nano_banana_prompts |->
                                 [j \in 1..Len(loc.directorOut.images) |->
                                    loc.directorOut.images[j].nano_prompt_en_v2],
                               llmTrace |-> traces',
                               perImageScores |-> loc.perImageScores]]

CopyReturn(c) ==
  LET loc == [local EXCEPT !.copy = c]
  IN pc' = "done" /\ local' = loc /\ response' = BuildResponse(loc)

\* mutant: the default caption is tagged with the invocation's trace id
CopyFastCatch_Stamped == CopyReturn([DefaultCopy(req) EXCEPT !.hash_tags = <<traceId>>])

\* the assignment that ends the outer catch block of the COPY call
CopyFastCatch == CopyReturn(DefaultCopy(req))

\* copy = await callJsonWithMode('fast', ...) inside the outer catch block,
\* which then goes on to its last statement
CopyFastReturn(c) == CopyFastCatch

CopyCatch ==
  IF mode = "quality" THEN Goto("copy_fast", local)
  ELSE CopyFastCatch

\* mutant: the enhancement loop is run again after the Empathic Reply
EmpathyReturn_ThenLoop(t) == Goto("loop", [local EXCEPT !.empathicReply = t, !.i = 0])

EmpathyReturn(t) == Goto("copy", [local EXCEPT !.empathicReply = t])

\* the assignment that ends the outer catch block of the EMPATHY call
EmpathyFastCatch == EmpathyReturn(DefaultReply(req))

\* empathicReply = await callTextWithMode('fast', ...) inside the outer catch
\* block, which then goes on to its last statement
EmpathyFastReturn(t) == EmpathyFastCatch

EmpathyCatch ==
  IF mode = "quality" THEN Goto("empathy_fast", local)
  ELSE EmpathyFastCatch

EmpathyStep ==
  /\ pc = "empathy"
  /\ \E answer \in BackendAnswers(TextAnswers) :
       LET res == textAction(answer, Reply("llm", "llm reply", "primary"))
       IN Call("empathy", "EMPATHY", mode, getSpec("EMPATHY"), NoMode,
               res, TextValid(res.val), EmpathyReturn(res.val), EmpathyCatch)

EmpathyFastStep ==
  /\ pc = "empathy_fast"
  /\ IF getSpecForMode("fast", "EMPATHY") = NoSpec
     THEN RouterIdle /\ EmpathyFastCatch /\ Frame
     ELSE \E answer \in BackendAnswers(TextAnswers) :
            LET res == textAction(answer, Reply("llm", "llm reply", "fast"))
            IN Call("empathy_fast", "EMPATHY", "fast", getSpecForMode("fast", "EMPATHY"), "fast",
                    res, TextValid(res.val), EmpathyFastReturn(res.val), EmpathyFastCatch)

CopyStep ==
  /\ pc = "copy"
  /\ \E answer \in BackendAnswers(JsonAnswers) :
       LET res == jsonAction(answer, Copy("llm title", "llm text", <<"#llm">>, "primary"))
       IN Call("copy", "COPY", mode, getSpec("COPY"), NoMode,
               res, AlwaysValid(res.val), CopyReturn(res.val), CopyCatch)

CopyFastStep ==
  /\ pc = "copy_fast"
  /\ IF getSpecForMode("fast", "COPY") = NoSpec
     THEN RouterIdle /\ CopyFastCatch /\ Frame
     ELSE \E answer \in BackendAnswers(JsonAnswers) :
            LET res == jsonAction(answer, Copy("llm title", "llm text", <<"#llm">>, "fast"))
            IN Call("copy_fast", "COPY", "fast", getSpecForMode("fast", "COPY"), "fast",
                    res, AlwaysValid(res.val), CopyFastReturn(res.val), CopyFastCatch)

\* ------------------------------------------------------------ specification
\* generateTraceId(): a fresh id built from the clock and a random suffix;
\* n counts the ids generated so far, this one included
generateTraceId(n) == "trace_" \o ToString(n)

\* mutant: an id is generated for every invocation
ResolveTraceId_AlwaysMint(r, n) == generateTraceId(n)

\* const traceId = req.traceId || generateTraceId()
ResolveTraceId(r, n) == IF r.traceId = "" THEN generateTraceId(n) ELSE r.traceId

\* the state after `new LLMRouter(req, traceId)` and the reading of the files
Init ==
  /\ req \in Requests
  /\ mode = ResolveMode(req)
  /\ traceId = ResolveTraceId(req, 1)
  /\ traces = <<>>
  /\ pc = "understanding"
  /\ attempt = 0
  /\ lastError = NoError
  /\ local = NoLocal
  /\ response = NoResponse
  /\ calls = <<>>
  /\ harness = NoHarness
  /\ backend = FreeBackend
  /\ session = NoSession
  /\ matrix = MODEL_MATRIX
  /\ inflight = Untracked
  /\ other = NoInvocation

Next ==
  \/ UnderstandingStep
  \/ UnderstandingFastStep
  \/ DirectorStep
  \/ DirectorFastStep
  \/ EnhanceLoop
  \/ ImageGenStep
  \/ ImageGenFastStep
  \/ GuardrailStep
  \/ GuardrailFastStep
  \/ RescueStep
  \/ EmpathyStep
  \/ EmpathyFastStep
  \/ CopyStep
  \/ CopyFastStep

Spec == Init /\ [][Next]_vars

\* ------------------------------------------- requests with several images
\* The same invocation for a request with one image more than MaxImages, in
\* fast and in quality mode, against a backend with a budget of failing
\* attempts.
LoopRequests ==
  {MakeRequest(MaxImages + 1, o) : o \in {CreateOption("today I'm tired", FALSE, "fast"),
                                          CreateOption("today I'm tired", FALSE, "quality")}}

LoopInit ==
  /\ req \in LoopRequests
  /\ mode = ResolveMode(req)
  /\ traceId = ResolveTraceId(req, 1)
  /\ traces = <<>>
  /\ pc = "understanding"
  /\ attempt = 0
  /\ lastError = NoError
  /\ local = NoLocal
  /\ response = NoResponse
  /\ calls = <<>>
  /\ harness = NoHarness
  /\ backend = BudgetBackend
  /\ session = NoSession
  /\ matrix = MODEL_MATRIX
  /\ inflight = Untracked
  /\ other = NoInvocation

SpecLoop == LoopInit /\ [][Next]_vars

\* ------------------------------------------- the guardrail's evaluators
\* MODEL_MATRIX configures FAST_GUARDRAIL for fast only and IMAGE_QA for
\* quality only.  runFastGuardrail reads both cells of the active mode and
\* safeRunFastGuardrail the FAST_GUARDRAIL cell of fast, so the guardrail is
\* run against every table whose evaluator cells are null or configured.
GuardMatrices ==
  {[MODEL_MATRIX EXCEPT !.fast.FAST_GUARDRAIL = ff, !.fast.IMAGE_QA = fq,
                        !.quality.FAST_GUARDRAIL = qf, !.quality.IMAGE_QA = qq] :
     ff \in {NoSpec, MODEL_MATRIX.fast.FAST_GUARDRAIL},
     fq \in {NoSpec, MODEL_MATRIX.quality.IMAGE_QA},
     qf \in {NoSpec, MODEL_MATRIX.fast.FAST_GUARDRAIL},
     qq \in {NoSpec, MODEL_MATRIX.quality.IMAGE_QA}}

GuardRequests ==
  {MakeRequest(MaxImages, o) : o \in {CreateOption("today I'm tired", FALSE, "fast"),
                                      CreateOption("today I'm tired", FALSE, "quality")}}

GuardInit ==
  /\ req \in GuardRequests
  /\ mode = ResolveMode(req)
  /\ traceId = ResolveTraceId(req, 1)
  /\ traces = <<>>
  /\ pc = "understanding"
  /\ attempt = 0
  /\ lastError = NoError
  /\ local = NoLocal
  /\ response = NoResponse
  /\ calls = <<>>
  /\ harness = NoHarness
  /\ backend = BudgetBackend
  /\ session = NoSession
  /\ matrix \in GuardMatrices
  /\ inflight = Untracked
  /\ other = NoInvocation

SpecGuard == GuardInit /\ [][Next]_vars

\* ---------------------------------------------- an invocation that goes on
\* Every backend attempt returns or throws in the end and the code between
\* two awaits runs to the next one: the steps of the invocation are taken
\* as long as there is one to take.
LiveRequests ==
  {MakeRequest(n, o) : n \in 0..MaxImages,
                       o \in {CreateOption("today I'm tired", FALSE, "fast"),
                              CreateOption("today I'm tired", FALSE, "quality")}}

LiveInit ==
  /\ req \in LiveRequests
  /\ mode = ResolveMode(req)
  /\ traceId = ResolveTraceId(req, 1)
  /\ traces = <<>>
  /\ pc = "understanding"
  /\ attempt = 0
  /\ lastError = NoError
  /\ local = NoLocal
  /\ response = NoResponse
  /\ calls = <<>>
  /\ harness = NoHarness
  /\ backend = FreeBackend
  /\ session = NoSession
  /\ matrix = MODEL_MATRIX
  /\ inflight = Untracked
  /\ other = NoInvocation

SpecLive == LiveInit /\ [][Next]_vars /\ WF_vars(Next)

\* ------------------------------------------------ the reading of the files
\* runOrchestrator from its first line: the source files are read before
\* the try block, and FileReader may fail on any of them (reader.onerror =
\* reject); Promise.all of no file resolves.
ReadFiles ==
  /\ pc = "files"
  /\ \E outcome \in (IF req.images > 0 THEN {"resolve", "reject"} ELSE {"resolve"}) :
       IF outcome = "resolve"
       THEN pc' = "understanding" /\ lastError' = lastError
       ELSE pc' = "failed" /\ lastError' = Err("FileReader error", -1)
  /\ UNCHANGED <<req, mode, traceId, traces, attempt, local, response, calls, harness, backend,
                 session, matrix, inflight, other>>

FilesInit ==
  /\ req \in GuardRequests
  /\ mode = ResolveMode(req)
  /\ traceId = ResolveTraceId(req, 1)
  /\ traces = <<>>
  /\ pc = "files"
  /\ attempt = 0
  /\ lastError = NoError
  /\ local = NoLocal
  /\ response = NoResponse
  /\ calls = <<>>
  /\ harness = NoHarness
  /\ backend = BudgetBackend
  /\ session = NoSession
  /\ matrix \in GuardMatrices
  /\ inflight = Untracked
  /\ other = NoInvocation

FilesNext == Next \/ ReadFiles

SpecFiles == FilesInit /\ [][FilesNext]_vars

\* requests in either language, with and without a note
Languages == {"zh", "en"}

ReplyRequests ==
  {[r EXCEPT !.language = l] :
     r \in {q \in Requests : q.action = "create" /\ q.traceId = ""}, l \in Languages}

ReplyInit ==
  /\ req \in ReplyRequests
  /\ mode = ResolveMode(req)
  /\ traceId = ResolveTraceId(req, 1)
  /\ traces = <<>>
  /\ pc = "understanding"
  /\ attempt = 0
  /\ lastError = NoError
  /\ local = NoLocal
  /\ response = NoResponse
  /\ calls = <<>>
  /\ harness = NoHarness
  /\ backend = BudgetBackend
  /\ session = NoSession
  /\ matrix = MODEL_MATRIX
  /\ inflight = Untracked
  /\ other = NoInvocation

SpecReply == ReplyInit /\ [][Next]_vars

\* the guardrail against evaluators that answer any verdict string
VerdictInit ==
  /\ req \in GuardRequests
  /\ mode = ResolveMode(req)
  /\ traceId = ResolveTraceId(req, 1)
  /\ traces = <<>>
  /\ pc = "understanding"
  /\ attempt = 0
  /\ lastError = NoError
  /\ local = NoLocal
  /\ response = NoResponse
  /\ calls = <<>>
  /\ harness = NoHarness
  /\ backend = VerdictBackend
  /\ session = NoSession
  /\ matrix \in GuardMatrices
  /\ inflight = Untracked
  /\ other = NoInvocation

SpecVerdict == VerdictInit /\ [][Next]_vars

\* ------------------------------------------------ requests in flight
\* An attempt in two steps: `await action()` sends the request of the
\* attempt (StartAttempt) and the step of the call site takes its answer.
CallSites ==
  {"understanding", "understanding_fast", "director", "director_fast", "imagegen",
   "imagegen_fast", "guardrail", "guardrail_fast", "rescue", "empathy", "empathy_fast",
   "copy", "copy_fast"}

\* the ModelSpec the call at `site` runs with
SiteSpec(site) ==
  CASE site = "understanding"      -> getSpec("UNDERSTANDING")
    [] site = "understanding_fast" -> getSpecForMode("fast", "UNDERSTANDING")
    [] site = "director"           -> getSpec("VISUAL_DIRECTOR")
    [] site = "director_fast"      -> getSpecForMode("fast", "VISUAL_DIRECTOR")
    [] site = "imagegen"           -> getSpec("IMAGE_GEN")
    [] site = "imagegen_fast"      -> getSpecForMode("fast", "IMAGE_GEN")
    [] site = "guardrail"          -> getSpec(PreferredAgent)
    [] site = "guardrail_fast"     -> getSpecForMode("fast", "FAST_GUARDRAIL")
    [] site = "rescue"             -> getSpecForMode(rescueMode, "IMAGE_GEN")
    [] site = "empathy"            -> getSpec("EMPATHY")
    [] site = "empathy_fast"       -> getSpecForMode("fast", "EMPATHY")
    [] site = "copy"               -> getSpec("COPY")
    [] OTHER                       -> getSpecForMode("fast", "COPY")

\* mutant: the requests of all the attempts left in the budget are sent at once
StartAttempt_Racing ==
  /\ pc \in CallSites
  /\ inflight # Untracked
  /\ SiteSpec(pc) # NoSpec
  /\ Request(pc) \notin inflight
  /\ inflight' = inflight \cup {[Request(pc) EXCEPT !.attempt = a] :
                                  a \in attempt..(Attempts(SiteSpec(pc)) - 1)}
  /\ UNCHANGED <<req, mode, traceId, traces, pc, attempt, lastError, local, response, calls,
                 harness, backend, session, matrix, other>>

\* const result = await action(): the request of the current attempt is sent
StartAttempt ==
  /\ pc \in CallSites
  /\ inflight # Untracked
  /\ SiteSpec(pc) # NoSpec
  /\ Request(pc) \notin inflight
  /\ inflight' = inflight \cup {Request(pc)}
  /\ UNCHANGED <<req, mode, traceId, traces, pc, attempt, lastError, local, response, calls,
                 harness, backend, session, matrix, other>>

FlightInit ==
  /\ req \in GuardRequests
  /\ mode = ResolveMode(req)
  /\ traceId = ResolveTraceId(req, 1)
  /\ traces = <<>>
  /\ pc = "understanding"
  /\ attempt = 0
  /\ lastError = NoError
  /\ local = NoLocal
  /\ response = NoResponse
  /\ calls = <<>>
  /\ harness = NoHarness
  /\ backend = BudgetBackend
  /\ session = NoSession
  /\ matrix = MODEL_MATRIX
  /\ inflight = {}
  /\ other = NoInvocation

FlightNext == Next \/ StartAttempt

SpecFlight == FlightInit /\ [][FlightNext]_vars

\* ------------------------------------------------ two invocations at once
\* runOrchestrator is async: while one invocation waits at an await, the
\* event loop may run another one.  The variables hold the invocation that
\* is running, `other` the one that is suspended; each has its own router
\* (mode, traceId, traces) and its own locals.  The backend answers the k-th
\* attempt of either invocation by its script.
Me ==
  [req |-> req, mode |-> mode, traceId |-> traceId, traces |-> traces, pc |-> pc,
   attempt |-> attempt, lastError |-> lastError, local |-> local, response |-> response,
   calls |-> calls]

\* const traceId = ...; const llm = new LLMRouter(req, traceId), for the n-th invocation
NewInvocation(r, n) ==
  [req |-> r, mode |-> ResolveMode(r), traceId |-> ResolveTraceId(r, n), traces |-> <<>>,
   pc |-> "understanding", attempt |-> 0, lastError |-> NoError, local |-> NoLocal,
   response |-> NoResponse, calls |-> <<>>]

\* the backend fails during one window of attempts
Outages == {a..b : a, b \in 1..MaxScript}

\* mutant: the two routers append to one trace list
Switch_SharedTrace ==
  /\ other # NoInvocation
  /\ pc \in CallSites \cup {"done"}
  /\ req' = other.req
  /\ mode' = other.mode
  /\ traceId' = other.traceId
  /\ traces' = traces
  /\ pc' = other.pc
  /\ attempt' = other.attempt
  /\ lastError' = other.lastError
  /\ local' = other.local
  /\ response' = other.response
  /\ calls' = other.calls
  /\ other' = Me
  /\ UNCHANGED <<harness, backend, session, matrix, inflight>>

\* the running invocation is suspended at its await and the other one resumed
Switch ==
  /\ other # NoInvocation
  /\ pc \in CallSites \cup {"done"}
  /\ req' = other.req
  /\ mode' = other.mode
  /\ traceId' = other.traceId
  /\ traces' = other.traces
  /\ pc' = other.pc
  /\ attempt' = other.attempt
  /\ lastError' = other.lastError
  /\ local' = other.local
  /\ response' = other.response
  /\ calls' = other.calls
  /\ other' = Me
  /\ UNCHANGED <<harness, backend, session, matrix, inflight>>

PairInit ==
  /\ req = MakeRequest(MaxImages, CreateOption("today I'm tired", FALSE, "quality"))
  /\ mode = ResolveMode(req)
  /\ traceId = ResolveTraceId(req, 1)
  /\ traces = <<>>
  /\ pc = "understanding"
  /\ attempt = 0
  /\ lastError = NoError
  /\ local = NoLocal
  /\ response = NoResponse
  /\ calls = <<>>
  /\ harness = NoHarness
  /\ backend \in {MockBackend(faults, pass, 0..(MaxImages - 1)) :
                    faults \in Outages, pass \in BOOLEAN}
  /\ session = NoSession
  /\ matrix = MODEL_MATRIX
  /\ inflight = Untracked
  /\ other = NewInvocation(MakeRequest(MaxImages, CreateOption("", FALSE, "fast")), 2)

PairNext == Next \/ Switch

SpecPair == PairInit /\ [][PairNext]_vars


\* ---------------------------------------------- withRetries on its own
\* A single router call with an arbitrary retry budget: harness.shape is the
\* call shape, harness.retries the `retries` of its ModelSpec.  An answer
\* with content carries the index of the attempt that produced it.
Shapes == {"json", "text", "image"}

ShapeAgent(shape) ==
  CASE shape = "json" -> "COPY" [] shape = "text" -> "EMPATHY" [] OTHER -> "IMAGE_GEN"

ShapeAnswers(shape) ==
  CASE shape = "json" -> JsonAnswers \cup {"unparseable"}
    [] shape = "text" -> TextAnswers \cup {"blank"}
    [] OTHER          -> TextAnswers

ShapeAction(shape, answer, att) ==
  CASE shape = "json" -> jsonAction(answer, Copy("llm title", "llm text", <<>>, att))
    [] shape = "text" -> textAction(answer, Reply("llm", "llm reply", att))
    [] OTHER          -> imageAction(answer, Generated(0, att))

RetryInit ==
  /\ req \in {r \in Requests : r.images = 0}
  /\ mode = ResolveMode(req)
  /\ traceId = ResolveTraceId(req, 1)
  /\ traces = <<>>
  /\ pc = "withRetries"
  /\ attempt = 0
  /\ lastError = NoError
  /\ local = NoLocal
  /\ response = NoResponse
  /\ calls = <<>>
  /\ harness \in {[shape |-> sh, retries |-> b, modeOverride |-> mo,
                   status |-> "running", result |-> -1, thrown |-> NoError,
                   answers |-> <<>>, nullResult |-> FALSE] :
                    sh \in Shapes, b \in 0..MaxBudget, mo \in Modes \cup {NoMode}}
  /\ backend = FreeBackend
  /\ session = NoSession
  /\ matrix = MODEL_MATRIX
  /\ inflight = Untracked
  /\ other = NoInvocation

WithRetriesStep ==
  /\ pc = "withRetries"
  /\ harness.status = "running"
  /\ \E answer \in ShapeAnswers(harness.shape) :
       LET spec == [model |-> "model", temperature |-> 0, retries |-> harness.retries]
           res == ShapeAction(harness.shape, answer, attempt)
           r == CASE harness.shape = "json" ->
                       withRetries("COPY", spec, res, AlwaysValid(res.val), harness.modeOverride)
                  [] harness.shape = "text" ->
                       withRetries("EMPATHY", spec, res, TextValid(res.val), harness.modeOverride)
                  [] OTHER ->
                       withRetries("IMAGE_GEN", spec, res, ImageValid(res.val), harness.modeOverride)
       IN /\ traces' = r.traces
          /\ attempt' = r.attempt
          /\ lastError' = r.lastError
          /\ harness' = [harness EXCEPT
                           !.status = CASE r.status = "return" -> "returned"
                                        [] r.status = "retry"  -> "running"
                                        [] OTHER               -> "thrown",
                           !.result = IF r.status = "return" THEN r.result.by ELSE -1,
                           !.thrown = IF r.status = "throw" THEN r.lastError ELSE NoError,
                           !.answers = Append(harness.answers, answer),
                           !.nullResult = /\ r.status = "return"
                                          /\ harness.shape = "image"
                                          /\ r.result = NullImg]
  /\ UNCHANGED <<req, mode, traceId, pc, local, response, calls, backend, session, matrix,
                 inflight, other>>

RetryNext == WithRetriesStep

SpecRetry == RetryInit /\ [][RetryNext]_vars


\* ------------------------------------- two invocations, one mock backend
\* The same request is sent twice to a deterministic backend: whichever
\* invocation makes the k-th attempt, the backend answers it the same way.
\* The second invocation starts when the first has returned; it has its own
\* router (no trace, its own generated trace id).
TwiceRequests ==
  {r \in Requests : r.action = "create" /\ r.traceId = "" /\ r.raw_text # ""}

TwiceInit ==
  /\ req \in TwiceRequests
  /\ mode = ResolveMode(req)
  /\ traceId = ResolveTraceId(req, 1)
  /\ traces = <<>>
  /\ pc = "understanding"
  /\ attempt = 0
  /\ lastError = NoError
  /\ local = NoLocal
  /\ response = NoResponse
  /\ calls = <<>>
  /\ harness = NoHarness
  /\ backend \in {MockBackend(faults, pass, plans) :
                    faults \in SUBSET (1..MaxScript), pass \in BOOLEAN,
                    plans \in SUBSET ImageIndexes(req)}
  /\ session = NoSession
  /\ matrix = MODEL_MATRIX
  /\ inflight = Untracked
  /\ other = NoInvocation

InvokeAgain ==
  /\ pc = "done"
  /\ backend.kind = "mock"
  /\ backend.run = 1
  /\ backend' = [backend EXCEPT !.run = 2, !.first = response]
  /\ traceId' = ResolveTraceId(req, 2)
  /\ traces' = <<>>
  /\ pc' = "understanding"
  /\ attempt' = 0
  /\ lastError' = NoError
  /\ local' = NoLocal
  /\ response' = NoResponse
  /\ calls' = <<>>
  /\ UNCHANGED <<req, mode, harness, session, matrix, inflight, other>>

TwiceNext ==
  \/ Next
  \/ InvokeAgain

SpecTwice == TwiceInit /\ [][TwiceNext]_vars


\* ------------------------------------------------------ the App's session
\* The App component (index.tsx): its `request`, `response` and
\* `currentTraceId` state and its handlers.  A handler awaits runOrchestrator;
\* here the invocation is its entry (req, mode and traceId as lines 646-648
\* set them) and its outcome: it returns a response with that traceId, or,
\* for a request with images, it throws (a source file that cannot be read).  session.response is the
\* trace id of the response on display, "" for null; session.generated
\* counts the calls of generateTraceId; session.log is bookkeeping of the
\* model, one entry per invocation: the action, the invocation's trace id,
\* whether that id was generated by this invocation, and whether the
\* invocation returned.
NoAction == "undefined"

InitialRequest ==
  MakeRequest(0, [raw_text |-> "", enable_l4_loop |-> FALSE, performance_mode |-> "fast",
                  action |-> NoAction, refine_target |-> NoTarget, traceId |-> ""])

SessionStart ==
  [request |-> InitialRequest, response |-> "", currentTraceId |-> "", generated |-> 0,
   log |-> <<>>, created |-> FALSE]

Outcomes(r) == IF r.images > 0 THEN {"return", "throw"} ELSE {"return"}

LogEntry(r, outcome) ==
  [action    |-> r.action,
   traceId   |-> ResolveTraceId(r, session.generated + 1),
   generated |-> r.traceId = "",
   ok        |-> outcome = "return"]

\* await runOrchestrator(r): the invocation's entry
Invoke(r) ==
  /\ req' = r
  /\ mode' = ResolveMode(r)
  /\ traceId' = ResolveTraceId(r, session.generated + 1)
  /\ UNCHANGED <<traces, pc, attempt, lastError, local, response, calls, harness, backend,
                 matrix, inflight, other>>

\* the session after the invocation for request r ended with `outcome` and
\* the handler left `kept` in the request state
AfterInvoke(r, outcome, kept) ==
  [session EXCEPT
     !.request        = kept,
     !.response       = IF outcome = "return" THEN ResolveTraceId(r, session.generated + 1) ELSE @,
     !.generated      = IF r.traceId = "" THEN @ + 1 ELSE @,
     !.log            = Append(@, LogEntry(r, outcome))]

\* the fields that both handlers clear once the invocation returned
ClearRefine(r) == [r EXCEPT !.action = NoAction]

\* InputForm's onChange = setRequest: the note is edited, files are added
\* or removed
handleChange ==
  /\ pc = "session"
  /\ \E text \in {"", "today I'm tired"}, n \in 0..MaxImages :
       /\ text # session.request.raw_text \/ n # session.request.images
       /\ session' = [session EXCEPT !.request.raw_text = text, !.request.images = n]
  /\ UNCHANGED <<req, mode, traceId, traces, pc, attempt, lastError, local, response, calls,
                 harness, backend, matrix, inflight, other>>

\* the submit button is disabled without a note and without images;
\* session.created notes that a create has returned since the last reset
handleSubmit ==
  /\ pc = "session"
  /\ Len(session.log) < MaxActions
  /\ session.request.raw_text # "" \/ session.request.images > 0
  /\ \E outcome \in Outcomes(session.request) :
       LET newRequest == [session.request EXCEPT !.action = "create"]
           after == AfterInvoke(newRequest, outcome,
                                IF outcome = "return" THEN ClearRefine(session.request)
                                ELSE session.request)
       IN /\ Invoke(newRequest)
          /\ session' = IF outcome = "return"
                        THEN [after EXCEPT !.currentTraceId = after.response,
                                           !.created = TRUE]
                        ELSE after

handleRefine ==
  /\ pc = "session"
  /\ Len(session.log) < MaxActions
  /\ IF session.currentTraceId = ""
     THEN UNCHANGED vars
     ELSE \E outcome \in Outcomes(session.request) :
            LET refineRequest == [session.request EXCEPT !.action = "refine",
                                                         !.traceId = session.currentTraceId]
            IN /\ Invoke(refineRequest)
               /\ session' = AfterInvoke(refineRequest, outcome,
                                         IF outcome = "return" THEN ClearRefine(refineRequest)
                                         ELSE refineRequest)

\* mutant: the reset leaves the stored trace id
handleReset_KeepTraceId ==
  /\ pc = "session"
  /\ session' = [session EXCEPT !.request = InitialRequest,
                                !.response = "",
                                !.created = FALSE]
  /\ UNCHANGED <<req, mode, traceId, traces, pc, attempt, lastError, local, response, calls,
                 harness, backend, matrix, inflight, other>>

handleReset ==
  /\ pc = "session"
  /\ session' = [session EXCEPT !.request = InitialRequest,
                                !.response = "",
                                !.currentTraceId = "",
                                !.created = FALSE]
  /\ UNCHANGED <<req, mode, traceId, traces, pc, attempt, lastError, local, response, calls,
                 harness, backend, matrix, inflight, other>>

SessionInit ==
  /\ req = InitialRequest
  /\ mode = ResolveMode(req)
  /\ traceId = ""
  /\ traces = <<>>
  /\ pc = "session"
  /\ attempt = 0
  /\ lastError = NoError
  /\ local = NoLocal
  /\ response = NoResponse
  /\ calls = <<>>
  /\ harness = NoHarness
  /\ backend = FreeBackend
  /\ session = SessionStart
  /\ matrix = MODEL_MATRIX
  /\ inflight = Untracked
  /\ other = NoInvocation

SessionNext ==
  \/ handleChange
  \/ handleSubmit
  \/ handleRefine
  \/ handleReset

SpecSession == SessionInit /\ [][SessionNext]_vars


\* ================================================================ properties
\* --- reading the bookkeeping
CallIds == 1..Len(calls)

\* the trace records of call c: from its first record to the record before
\* the next call's first
CallRecords(c) ==
  SubSeq(traces, calls[c].first,
         IF c < Len(calls) THEN calls[c + 1].first - 1 ELSE Len(traces))

CallFailed(c) == \A k \in 1..Len(CallRecords(c)) : ~CallRecords(c)[k].ok

CallSucceeded(c) == \E k \in 1..Len(CallRecords(c)) : CallRecords(c)[k].ok

\* the calls of the given sites made for image k
ImageCalls(sites, k) == {c \in CallIds : calls[c].site \in sites /\ calls[c].image = k}

SiteCalls(site) == {c \in CallIds : calls[c].site = site}

GenSites == {"imagegen", "imagegen_fast"}
GuardSites == {"guardrail", "guardrail_fast"}
FastSites == {"understanding_fast", "director_fast", "imagegen_fast", "guardrail_fast",
              "empathy_fast", "copy_fast"}

\* image k has been through its loop iteration
Finished(k) == pc \in {"loop", "empathy", "empathy_fast", "copy", "copy_fast", "done"} /\ k < local.i

HasPlan(k) == FindPlan(local.directorOut, k) # 0

AllFailed == \A k \in 1..Len(traces) : ~traces[k].ok

GuardsOf(k) == {j \in 1..Len(local.guards) : local.guards[j].index = k}

C2_Defaults(storyCore) ==
  (pc = "done" /\ AllFailed) =>
     /\ response.understanding.story_core = storyCore
     /\ local.understanding.story_core = storyCore
     /\ Len(local.understanding.per_image) = req.images
     /\ \A k \in ImageIndexes(req) :
          /\ local.understanding.per_image[k + 1].image_index = k
          /\ local.understanding.per_image[k + 1].risks = <<>>
     /\ Len(response.visual_director_output.images) = req.images
     /\ \A k \in ImageIndexes(req) :
          response.visual_director_output.images[k + 1].image_index = k
     /\ Len(response.variants) = 1
     /\ DOMAIN response.variants[1].enhanced_images_base64 = ImageIndexes(req)
     /\ \A k \in ImageIndexes(req) :
          response.variants[1].enhanced_images_base64[k] = Original(k)
     /\ response.variants[1].copy.title = "Draft"
     /\ response.variants[1].copy.main_text = req.raw_text
     /\ response.variants[1].copy.hash_tags = <<>>
     /\ response.empathic_reply.kind \in {"template_zh", "template_en"}
     /\ response.empathic_reply.text = req.raw_text
     /\ response.debugInfo.llmTrace = traces

C2_AllFailGivesRawTextDefaults == C2_Defaults(req.raw_text)

\* C2 amended: when every backend attempt fails, the response is made of the
\* defaults; the story core is the raw text when the raw text is not empty
\* and the fixed placeholder text otherwise.
C2_AllFailGivesDefaults ==
  C2_Defaults(IF req.raw_text = "" THEN "No user input provided." ELSE req.raw_text)

\* a quality-mode invocation with an image and an empty note in which every
\* attempt failed
C2_Witness ==
  /\ pc = "done"
  /\ AllFailed
  /\ mode = "quality"
  /\ req.images > 0
  /\ req.raw_text = ""
  /\ SiteCalls("imagegen_fast") # {}

\* --- C3
\* all generation attempts for k failed: the call under the active mode and
\* the fast-mode call, if there was one
GenerationFailed(k) ==
  /\ ImageCalls({"imagegen"}, k) # {}
  /\ \A c \in ImageCalls(GenSites, k) : CallFailed(c)

\* C3: for an image that has a plan and whose generation attempts all failed,
\* the enhanced image is the original source image, and neither a guardrail
\* call nor a rescue call was made for it.
C3_FailedGenerationKeepsOriginal ==
  \A k \in ImageIndexes(req) :
     (Finished(k) /\ HasPlan(k) /\ GenerationFailed(k)) =>
        /\ local.enhancedImages[k] = Original(k)
        /\ ImageCalls(GuardSites \cup {"rescue"}, k) = {}
        /\ GuardsOf(k) = {}

\* a completed fast-mode invocation whose image had a plan from the backend
\* and lost both generation attempts
C3_Witness ==
  /\ pc = "done"
  /\ mode = "fast"
  /\ req.images > 0
  /\ local.directorOut.by = "primary"
  /\ HasPlan(0)
  /\ GenerationFailed(0)

\* --- C4
\* C4: in a completed invocation every enhanced image is a generated image
\* for its index or the original source image of its index, never empty.
C4_NoEmptyEnhancedImage ==
  pc = "done" =>
     \A k \in ImageIndexes(req) :
        \/ local.enhancedImages[k] = Original(k)
        \/ /\ local.enhancedImages[k].kind = "generated"
           /\ local.enhancedImages[k].index = k

\* --- C5
\* C5: for every image the guardrail is evaluated at most once and at most
\* one rescue call is issued; a rescue call is issued exactly when an
\* enhanced image was produced and the verdict has pass = false; no guardrail
\* call follows the rescue call of the image.
C5_SingleGuardSingleRescue ==
  \A k \in ImageIndexes(req) :
     /\ Cardinality(GuardsOf(k)) <= 1
     /\ Cardinality(ImageCalls({"guardrail"}, k)) <= 1
     /\ Cardinality(ImageCalls({"guardrail_fast"}, k)) <= 1
     /\ Cardinality(ImageCalls({"rescue"}, k)) <= 1
     /\ \A c \in ImageCalls({"rescue"}, k) :
          /\ \E j \in GuardsOf(k) : ~local.guards[j].pass
          /\ \E g \in ImageCalls(GenSites, k) : CallSucceeded(g)
          /\ \A g \in ImageCalls(GuardSites, k) : g < c
     /\ Finished(k) =>
          ((\E j \in GuardsOf(k) : ~local.guards[j].pass) => ImageCalls({"rescue"}, k) # {})

\* a completed invocation in which the guardrail rejected the image and the
\* rescue call produced an image
C5_Witness ==
  /\ pc = "done"
  /\ \E k \in ImageIndexes(req) :
       /\ \E j \in GuardsOf(k) : ~local.guards[j].pass /\ local.guards[j].by = "primary"
       /\ \E c \in ImageCalls({"rescue"}, k) : CallSucceeded(c) /\ Len(CallRecords(c)) = 1


\* --- C6
RescueSucceeded(k) ==
  /\ \E j \in GuardsOf(k) : ~local.guards[j].pass
  /\ \E c \in ImageCalls({"rescue"}, k) : CallSucceeded(c)

\* the trace records of the rescue call(s) of image k
RescueRecords(k) ==
  UNION {{<<c, j>> : j \in 1..Len(CallRecords(c))} : c \in ImageCalls({"rescue"}, k)}

\* C6 as stated: when the guardrail rejects image k and the rescue generation
\* succeeds, the final image is the rescue output and the trace holds exactly
\* one rescue attempt for k.
C6_RescueOutputOneAttempt ==
  \A k \in ImageIndexes(req) :
     (Finished(k) /\ RescueSucceeded(k)) =>
        /\ local.enhancedImages[k] = Generated(k, "rescue")
        /\ Cardinality(RescueRecords(k)) = 1

\* C6 amended: when the guardrail rejects image k and the rescue generation
\* succeeds, the final image is the rescue output, and the trace holds the
\* records of exactly one rescue call for k: at most two failed attempts
\* followed by exactly one successful attempt.
C6_RescueOutputOneCall ==
  \A k \in ImageIndexes(req) :
     (Finished(k) /\ RescueSucceeded(k)) =>
        /\ local.enhancedImages[k] = Generated(k, "rescue")
        /\ local.enhancedImages[k] # Original(k)
        /\ Cardinality(ImageCalls({"rescue"}, k)) = 1
        /\ \A c \in ImageCalls({"rescue"}, k) :
             LET recs == CallRecords(c)
             IN /\ Len(recs) \in 1..3
                /\ recs[Len(recs)].ok
                /\ \A j \in 1..(Len(recs) - 1) : ~recs[j].ok
                /\ \A j \in 1..Len(recs) : recs[j].agent = "IMAGE_GEN"

\* a completed invocation whose rescue call succeeded at its third attempt,
\* after the first enhancement came from the fast-mode call
C6_Witness ==
  /\ pc = "done"
  /\ \E k \in ImageIndexes(req) :
       /\ RescueSucceeded(k)
       /\ \E c \in ImageCalls({"rescue"}, k) : Len(CallRecords(c)) = 3
       /\ \E c \in ImageCalls({"imagegen_fast"}, k) : CallSucceeded(c)

\* --- C7
PrimarySite(site) ==
  CASE site = "understanding_fast" -> "understanding"
    [] site = "director_fast"      -> "director"
    [] site = "imagegen_fast"      -> "imagegen"
    [] site = "guardrail_fast"     -> "guardrail"
    [] site = "empathy_fast"       -> "empathy"
    [] site = "copy_fast"          -> "copy"
    [] OTHER                       -> "none"

\* the primary call c of a stage is over and every attempt of it failed
Exhausted(c) ==
  /\ CallFailed(c)
  /\ \/ c < Len(calls)
     \/ pc # calls[c].site

C8_TextFallbackResultUsed ==
  (pc = "done" /\ mode = "quality") =>
     /\ \A c \in SiteCalls("empathy_fast") :
          CallSucceeded(c) => response.empathic_reply = Reply("llm", "llm reply", "fast")
     /\ \A c \in SiteCalls("copy_fast") :
          CallSucceeded(c) => response.variants[1].copy.by = "fast"
     /\ response.empathic_reply.by = "default" =>
          \A c \in SiteCalls("empathy") \cup SiteCalls("empathy_fast") : CallFailed(c)
     /\ response.variants[1].copy.by = "default" =>
          \A c \in SiteCalls("copy") \cup SiteCalls("copy_fast") : CallFailed(c)

\* --- C9
\* C9: in quality mode, when the fast-mode fallback call of Understanding,
\* Visual Direction, Image Enhancement or Guardrail succeeds, its result is
\* the stage's result and the stage's default is not used.
C9_FastResultUsed ==
  mode = "quality" =>
     /\ \A c \in SiteCalls("understanding_fast") :
          CallSucceeded(c) =>
             /\ local.understanding.by = "fast"
             /\ local.understanding.story_core = "llm story"
     /\ \A c \in SiteCalls("director_fast") :
          CallSucceeded(c) =>
             /\ local.directorOut.by = "fast"
             /\ \A j \in 1..Len(local.directorOut.images) :
                  local.directorOut.images[j].nano_prompt_en_v2[1] = "llm prompt"
     /\ \A c \in SiteCalls("imagegen_fast") :
          CallSucceeded(c) =>
             LET k == calls[c].image
             IN /\ (pc \in GuardSites \cup {"rescue"} /\ local.i = k) =>
                     local.resultImg = Generated(k, "fast")
                /\ Finished(k) =>
                     /\ local.enhancedImages[k] \in {Generated(k, "fast"), Generated(k, "rescue")}
                     /\ local.enhancedImages[k] = Generated(k, "rescue") => RescueSucceeded(k)
                     /\ GuardsOf(k) # {}
     /\ \A c \in SiteCalls("guardrail_fast") :
          CallSucceeded(c) =>
             /\ \A j \in GuardsOf(calls[c].image) : local.guards[j].by = "fast"
             /\ GuardsOf(calls[c].image) # {}
             /\ \E j \in 1..Len(local.perImageScores) :
                  /\ local.perImageScores[j].index = calls[c].image
                  /\ local.perImageScores[j].score # AutoPass.score

\* a quality-mode invocation in which all four stages were served by their
\* fast-mode fallback call
C9_Witness ==
  /\ pc = "done"
  /\ mode = "quality"
  /\ \E c \in SiteCalls("understanding_fast") : CallSucceeded(c)
  /\ \E c \in SiteCalls("director_fast") : CallSucceeded(c)
  /\ \E c \in SiteCalls("imagegen_fast") : CallSucceeded(c)
  /\ \E c \in SiteCalls("guardrail_fast") : CallSucceeded(c)

\* --- C10
\* C10: a withRetries call with retry budget b makes its attempts one after
\* another, at least one and at most max(1, b); it returns the result of the
\* first attempt that returns normally and passes validation, and stops
\* there; when all max(1, b) attempts fail it throws the error of the last.
C10_WithRetries ==
  LET b == harness.retries
      most == IF b >= 1 THEN b ELSE 1
  IN /\ Len(traces) <= most
     /\ \A k \in 1..Len(traces) : traces[k].retriesUsed = k - 1
     /\ attempt = Len(traces)
     /\ harness.status # "running" => Len(traces) >= 1
     /\ \A k \in 1..(Len(traces) - 1) : ~traces[k].ok
     /\ harness.status = "running" => \A k \in 1..Len(traces) : ~traces[k].ok
     /\ harness.status = "returned" =>
          /\ traces[Len(traces)].ok
          /\ harness.result = Len(traces) - 1
          /\ ~ENABLED RetryNext
     /\ harness.status = "thrown" =>
          /\ Len(traces) = most
          /\ ~traces[Len(traces)].ok
          /\ harness.thrown.attempt = most - 1
          /\ harness.thrown.msg # "none"
          /\ ~ENABLED RetryNext

\* a call with budget 3 that returned at its third attempt
C10_Witness ==
  /\ harness.retries = 3
  /\ harness.status = "returned"
  /\ Len(traces) = 3

\* --- C11
\* the call c is over (it returned or threw)
CallOver(c) == c < Len(calls) \/ attempt = 0

CallSpec(c) == getSpecForMode(calls[c].mode, calls[c].agent)

\* C11: every backend attempt appends exactly one trace record.  The records
\* of the invocation are the records of its router calls, call after call;
\* the k-th record of a call is the record of its k-th attempt, only the last
\* record of a call can have ok = true, a call in progress has one record per
\* attempt made so far, and a call whose attempts all failed has as many
\* records as the retry budget of its stage.
C11_OneRecordPerAttempt ==
  /\ calls = <<>> => traces = <<>>
  /\ calls # <<>> => calls[1].first = 1
  /\ \A c \in CallIds :
       LET recs == CallRecords(c)
       IN /\ Len(recs) >= 1
          /\ \A k \in 1..Len(recs) : recs[k].retriesUsed = k - 1
          /\ \A k \in 1..(Len(recs) - 1) : ~recs[k].ok
          /\ Len(recs) <= CallSpec(c).retries
          /\ ~CallOver(c) => Len(recs) = attempt /\ CallFailed(c)
          /\ CallOver(c) /\ CallFailed(c) => Len(recs) = CallSpec(c).retries

\* a completed invocation with a call that used up its budget of three
\* attempts and a call that succeeded at its second attempt
C11_Witness ==
  /\ pc = "done"
  /\ \E c \in CallIds : CallFailed(c) /\ Len(CallRecords(c)) = 3
  /\ \E c \in CallIds : CallSucceeded(c) /\ Len(CallRecords(c)) = 2

\* --- C12
IsPrefix(s, t) == Len(s) <= Len(t) /\ SubSeq(t, 1, Len(s)) = s

\* C12: the trace list is append-only.  Every step leaves the records there
\* are where they are and as they are, adding new ones at the end only, and
\* the trace of the response is the whole list, so that the ok = false
\* records of a stage are in the response when a later attempt succeeded.
C12_TraceAppendOnly ==
  [][/\ IsPrefix(traces, traces')
     /\ pc' = "done" => response'.debugInfo.llmTrace = traces']_vars

\* a response whose trace holds a failed Understanding attempt followed by a
\* successful one, and a failed generation call followed by its successful
\* fast-mode fallback
C12_Witness ==
  /\ pc = "done"
  /\ \E a, b \in 1..Len(response.debugInfo.llmTrace) :
       /\ a < b
       /\ response.debugInfo.llmTrace[a].agent = "UNDERSTANDING"
       /\ response.debugInfo.llmTrace[b].agent = "UNDERSTANDING"
       /\ ~response.debugInfo.llmTrace[a].ok
       /\ response.debugInfo.llmTrace[b].ok
  /\ \E c \in SiteCalls("imagegen"), d \in SiteCalls("imagegen_fast") :
       CallFailed(c) /\ CallSucceeded(d)

\* --- C13
\* C13: a request with action = refine and no trace id is rejected before
\* any backend call: it issues no router call, leaves no trace record and
\* returns no response.
C13_RefineWithoutTraceIdRejected ==
  (req.action = "refine" /\ req.traceId = "") =>
     /\ calls = <<>>
     /\ traces = <<>>
     /\ response = NoResponse

\* --- C14
\* C14: the trace id of the invocation, and of its response, is the trace id
\* of the request when the request carries one and the id generated for this
\* invocation otherwise; the id of the single Variant is that id followed by
\* "_v1".
C14_TraceIdLifecycle ==
  LET expected == IF req.traceId # "" THEN req.traceId ELSE generateTraceId(1)
  IN /\ traceId = expected
     /\ req.traceId = "" => traceId # PriorTraceId
     /\ pc = "done" =>
          /\ response.traceId = expected
          /\ Len(response.variants) = 1
          /\ response.variants[1].id = <<expected, "_v1">>

\* the response to a refine request that carries the id of an earlier response
C14_Witness ==
  /\ pc = "done"
  /\ req.action = "refine"
  /\ req.traceId = PriorTraceId
  /\ response.traceId = PriorTraceId

\* --- C15
\* the last invocation before entry k of the log that was a create and returned
LastCreate(k) ==
  LET creates == {j \in 1..(k - 1) : session.log[j].action = "create" /\ session.log[j].ok}
  IN IF creates = {} THEN 0 ELSE CHOOSE j \in creates : \A h \in creates : h <= j

\* C15: in a session every create invocation runs under a trace id generated
\* for it, different from the ids of all earlier invocations, and every
\* refine invocation runs under the trace id of the last create that
\* returned.
C15_TraceIdPerCreate ==
  \A k \in 1..Len(session.log) :
     LET e == session.log[k]
     IN /\ e.action = "create" =>
             /\ e.generated
             /\ \A j \in 1..(k - 1) : session.log[j].traceId # e.traceId
        /\ e.action = "refine" =>
             /\ LastCreate(k) # 0
             /\ e.traceId = session.log[LastCreate(k)].traceId

\* --- C16
\* C16: a refine invocation makes no Understanding and no Visual Direction
\* call: it enters the pipeline at the enhancement loop or at the text
\* stage.
C16_RefineSkipsUnderstanding ==
  req.action = "refine" =>
     \A c \in CallIds : calls[c].agent \notin {"UNDERSTANDING", "VISUAL_DIRECTOR"}

StageRank(agentId) ==
  CASE agentId = "UNDERSTANDING"            -> 1
    [] agentId = "VISUAL_DIRECTOR"          -> 2
    [] agentId \in {"EMPATHY", "COPY"}      -> 4
    [] OTHER                                -> 3

\* C18: the stages run in the order Understanding, Direction, Enhancement,
\* Text, Assemble.  In the trace no record of a later stage comes before a
\* record of an earlier one (generation, guardrail and rescue records are
\* the Enhancement stage, Empathic Reply and Caption the Text stage), the
\* calls of the Enhancement stage are made in the order of the image
\* indexes, and the response exists only once the last stage is over.
C18_StageOrder ==
  /\ \A a, b \in 1..Len(traces) :
       a < b => StageRank(traces[a].agent) <= StageRank(traces[b].agent)
  /\ \A c, d \in CallIds :
       (c < d /\ StageRank(calls[c].agent) = 3 /\ StageRank(calls[d].agent) = 3)
          => calls[c].image <= calls[d].image
  /\ response # NoResponse <=> pc = "done"

\* a completed quality-mode invocation with an Understanding call and a
\* Caption call that each needed a second attempt, generation calls for two
\* images and an evaluation of the second
C18_Witness ==
  /\ pc = "done"
  /\ mode = "quality"
  /\ \E c \in SiteCalls("understanding") : Len(CallRecords(c)) = 2 /\ CallSucceeded(c)
  /\ ImageCalls({"imagegen"}, 0) # {}
  /\ ImageCalls({"imagegen"}, 1) # {}
  /\ ImageCalls(GuardSites, 1) # {}
  /\ \E c \in SiteCalls("copy") : Len(CallRecords(c)) = 2 /\ CallSucceeded(c)

\* --- C19
\* what the plan and the outcomes of the calls made for image k alone say
\* its enhanced image is
ExpectedImage(k) ==
  IF ~HasPlan(k) THEN EmptyImg
  ELSE IF \E c \in ImageCalls({"rescue"}, k) : CallSucceeded(c) THEN Generated(k, "rescue")
  ELSE IF \E c \in ImageCalls({"imagegen"}, k) : CallSucceeded(c) THEN Generated(k, "primary")
  ELSE IF \E c \in ImageCalls({"imagegen_fast"}, k) : CallSucceeded(c) THEN Generated(k, "fast")
  ELSE Original(k)

\* C19: the images are processed independently.  Once the loop is over every
\* image index has been through it, whatever failed for the other images:
\* each image with a plan had its generation call, and the enhanced image of
\* index k is the one that the plan and the outcomes of the calls made for k
\* determine; a rescue call is made for k exactly when a verdict for k has
\* pass = false.
C19_ImagesIndependent ==
  /\ pc \in {"empathy", "empathy_fast", "copy", "copy_fast", "done"} => local.i = req.images
  /\ \A k \in ImageIndexes(req) :
       Finished(k) =>
          /\ HasPlan(k) => Cardinality(ImageCalls({"imagegen"}, k)) = 1
          /\ local.enhancedImages[k] = ExpectedImage(k)
          /\ ImageCalls({"rescue"}, k) # {} <=> \E j \in GuardsOf(k) : ~local.guards[j].pass

\* two images: the generation for image 0 failed and its original was kept,
\* image 1 was generated, rejected and rescued
C19_Witness ==
  /\ pc = "done"
  /\ req.images = 2
  /\ \E c \in ImageCalls({"imagegen"}, 0) : CallFailed(c)
  /\ local.enhancedImages[0] = Original(0)
  /\ \E c \in ImageCalls({"rescue"}, 1) : CallSucceeded(c)
  /\ local.enhancedImages[1] = Generated(1, "rescue")

\* --- C20
\* a response without its trace id and without the id of its Variant
Content(r) ==
  [r EXCEPT !.traceId = "", !.variants = <<[r.variants[1] EXCEPT !.id = <<>>]>>]

C21_OneVariant ==
  pc = "done" => Len(response.variants) = 1

\* a completed invocation for a request without images in which no backend
\* attempt succeeded
C21_Witness ==
  /\ pc = "done"
  /\ req.images = 0
  /\ traces # <<>>
  /\ AllFailed
  /\ Len(response.variants) = 1

\* --- C22
\* C22: the active mode is quality when enable_l4_loop is set, whatever the
\* performance mode of the request; otherwise it is the performance mode of
\* the request when it has one, and fast when it has none.  The calls that
\* name no mode are recorded under it.
C22_ModeResolution ==
  /\ mode = IF req.enable_l4_loop THEN "quality"
            ELSE IF req.performance_mode \in Modes THEN req.performance_mode
            ELSE "fast"
  /\ \A c \in CallIds :
       calls[c].site \notin (FastSites \cup {"rescue"}) =>
          \A k \in 1..Len(CallRecords(c)) : CallRecords(c)[k].mode = mode

\* a completed invocation with the flag set and performance mode fast whose
\* Understanding call was recorded under quality
C22_Witness ==
  /\ pc = "done"
  /\ req.enable_l4_loop
  /\ req.performance_mode = "fast"
  /\ \E c \in SiteCalls("understanding") : CallRecords(c)[1].mode = "quality"

\* --- C23
\* C23: every rescue call is made under quality, in a fast-mode invocation
\* as in a quality-mode one: the model of its records is the quality-mode
\* image model and no record of a rescue attempt has mode fast.
C23_RescueUnderQuality ==
  \A c \in SiteCalls("rescue") :
     /\ calls[c].mode = "quality"
     /\ \A k \in 1..Len(CallRecords(c)) :
          /\ CallRecords(c)[k].mode = "quality"
          /\ CallRecords(c)[k].agent = "IMAGE_GEN"
          /\ CallRecords(c)[k].model = MODEL_MATRIX.quality.IMAGE_GEN.model

\* a fast-mode invocation whose rescue call needed two attempts
C23_Witness ==
  /\ pc = "done"
  /\ mode = "fast"
  /\ \E c \in SiteCalls("rescue") : Len(CallRecords(c)) = 2 /\ CallSucceeded(c)

\* --- C25
\* every guardrail call made for image k has failed
GuardExhausted(k) ==
  /\ ImageCalls({"guardrail"}, k) # {}
  /\ \A c \in ImageCalls(GuardSites, k) : CallFailed(c)
  /\ mode = "quality" => ImageCalls({"guardrail_fast"}, k) # {}

\* C25: when every guardrail attempt for an image has failed (the attempts
\* under the active mode and, in a quality-mode invocation, the fast-mode
\* attempt), the verdict is the automatic pass (pass = true, score 0,
\* verdict OK), no rescue call is made for the image and its enhanced image
\* is the one the generation returned.
C25_GuardFailureIsPass ==
  \A k \in ImageIndexes(req) :
     (Finished(k) /\ GuardExhausted(k)) =>
        /\ \A j \in GuardsOf(k) : local.guards[j].by = "default" /\ local.guards[j].pass
        /\ Cardinality(GuardsOf(k)) = 1
        /\ \E j \in 1..Len(local.perImageScores) :
             local.perImageScores[j] = [index |-> k, score |-> 0, verdict |-> "OK"]
        /\ ImageCalls({"rescue"}, k) = {}
        /\ local.enhancedImages[k] \in {Generated(k, "primary"), Generated(k, "fast")}

\* a quality-mode invocation whose two IMAGE_QA attempts and whose fast-mode
\* guardrail attempt failed for the generated image
C25_Witness ==
  /\ pc = "done"
  /\ mode = "quality"
  /\ GuardExhausted(0)
  /\ \E c \in ImageCalls({"guardrail"}, 0) : Len(CallRecords(c)) = 2
  /\ local.enhancedImages[0] = Generated(0, "primary")

\* --- C26
\* C26: the router's mode never changes during an invocation.  No step
\* changes it, and every call that names no mode is made under the mode
\* resolved from the request, also when a rescue call under quality or a
\* fast-mode fallback call came before it, for an earlier stage or an
\* earlier image.
C26_ModeHeld ==
  [][/\ mode' = mode
     /\ \A c \in 1..Len(calls') :
          calls'[c].site \notin (FastSites \cup {"rescue"}) => calls'[c].mode = ResolveMode(req)]_vars

\* a fast-mode invocation for two images: image 0 was rescued under quality
\* and the generation for image 1 was then called under fast
C26_Witness ==
  /\ pc = "done"
  /\ mode = "fast"
  /\ \E c \in ImageCalls({"rescue"}, 0), d \in ImageCalls({"imagegen"}, 1) :
       /\ c < d
       /\ calls[c].mode = "quality"
       /\ CallRecords(d)[1].mode = "fast"

C30_UnusableIsFailure ==
  LET most == IF harness.retries >= 1 THEN harness.retries ELSE 1
      n == Len(harness.answers)
  IN /\ Len(traces) = n
     /\ \A k \in 1..n : traces[k].ok <=> harness.answers[k] = "ok"
     /\ \A k \in 1..n :
          (harness.answers[k] # "ok" /\ k < most) =>
             \/ n > k
             \/ harness.status = "running" /\ ENABLED WithRetriesStep
     /\ harness.status = "thrown" => n = most /\ harness.answers[n] # "ok"
     /\ harness.status = "returned" => harness.answers[n] = "ok"
     /\ ~harness.nullResult

\* an image call with budget 3 whose first two responses carried no inline
\* image and whose third returned one
C30_Witness ==
  /\ harness.shape = "image"
  /\ harness.retries = 3
  /\ harness.answers = <<"empty", "empty", "ok">>
  /\ harness.status = "returned"
  /\ ~traces[1].ok /\ ~traces[2].ok /\ traces[3].ok

\* --- C24
\* C24: the guardrail asks the evaluator configured for the active mode:
\* FAST_GUARDRAIL when the table has it for that mode, otherwise IMAGE_QA.
\* When the table has neither for the active mode, the guardrail makes no
\* backend call and appends no trace record, and its verdict is pass = true,
\* score 0, verdict OK.
C24_GuardrailEvaluator ==
  LET fg == matrix[mode].FAST_GUARDRAIL # NoSpec
      qa == matrix[mode].IMAGE_QA # NoSpec
  IN /\ \A c \in SiteCalls("guardrail") :
          /\ calls[c].agent = IF fg THEN "FAST_GUARDRAIL" ELSE "IMAGE_QA"
          /\ matrix[mode][calls[c].agent] # NoSpec
          /\ \A k \in 1..Len(CallRecords(c)) :
               /\ CallRecords(c)[k].agent = calls[c].agent
               /\ CallRecords(c)[k].mode = mode
     /\ (fg \/ qa) =>
          \A k \in ImageIndexes(req) :
             (Finished(k) /\ \E c \in ImageCalls(GenSites, k) : CallSucceeded(c)) =>
                ImageCalls({"guardrail"}, k) # {}
     /\ (~fg /\ ~qa) =>
          /\ \A c \in CallIds : calls[c].site \notin GuardSites
          /\ \A k \in 1..Len(traces) : traces[k].agent \notin {"FAST_GUARDRAIL", "IMAGE_QA"}
          /\ \A j \in 1..Len(local.guards) :
               local.guards[j] = [index |-> local.guards[j].index, pass |-> TRUE, by |-> "default"]
          /\ \A j \in 1..Len(local.perImageScores) :
               local.perImageScores[j].score = 0 /\ local.perImageScores[j].verdict = "OK"
          /\ \A k \in ImageIndexes(req) :
               (Finished(k) /\ \E c \in ImageCalls(GenSites, k) : CallSucceeded(c)) =>
                  Cardinality(GuardsOf(k)) = 1

\* a fast-mode invocation against a table with no evaluator for fast: the
\* generated image was passed without a guardrail call
C24_Witness ==
  /\ pc = "done"
  /\ mode = "fast"
  /\ matrix.fast.FAST_GUARDRAIL = NoSpec /\ matrix.fast.IMAGE_QA = NoSpec
  /\ local.enhancedImages[0] = Generated(0, "primary")
  /\ Len(local.guards) = 1 /\ local.guards[1].by = "default"


\* --- C28
\* C28: within one invocation at most one backend attempt is in flight at
\* any time, and it is the attempt the router is at: the request of a retry
\* is sent only after the previous attempt of the stage has returned or
\* thrown, so no two attempts of a stage overlap.
C28_OneInFlight ==
  /\ Cardinality(inflight) <= 1
  /\ \A q \in inflight :
       /\ q = Request(pc)
       /\ Len(traces) >= q.attempt
       /\ \A k \in 1..q.attempt : ~traces[Len(traces) - q.attempt + k].ok

\* the third attempt of the quality-mode Understanding call is in flight,
\* after the first two have failed
C28_Witness ==
  /\ pc = "understanding"
  /\ attempt = 2
  /\ inflight = {[site |-> "understanding", image |-> 0, attempt |-> 2]}
  /\ Len(traces) = 2 /\ ~traces[1].ok /\ ~traces[2].ok

\* --- C29
\* the trace records of call c of invocation s
RecordsOf(s, c) ==
  SubSeq(s.traces, s.calls[c].first,
         IF c < Len(s.calls) THEN s.calls[c + 1].first - 1 ELSE Len(s.traces))

\* invocation s holds what it would hold had it run alone: its mode is the
\* one resolved from its request, its trace is the records of its own calls
\* in order, each call numbered from attempt 0 and all but its last attempt
\* failed, its calls are the ones its mode allows, its intermediate results
\* are built from its request and its response carries its trace id and
\* its trace
Own(s) ==
  /\ s.mode = ResolveMode(s.req)
  /\ s.traceId \in {ResolveTraceId(s.req, 1), ResolveTraceId(s.req, 2)}
  /\ Len(s.calls) > 0 => s.calls[1].first = 1
  /\ Len(s.calls) = 0 => s.traces = <<>>
  /\ \A c \in 1..Len(s.calls) :
       /\ Len(RecordsOf(s, c)) >= 1
       /\ s.calls[c].mode = IF s.calls[c].site \in FastSites THEN "fast"
                            ELSE IF s.calls[c].site = "rescue" THEN "quality"
                            ELSE s.mode
       /\ s.calls[c].site \in FastSites => s.mode = "quality"
       /\ s.calls[c].image \in 0..s.req.images
       /\ \A k \in 1..Len(RecordsOf(s, c)) :
            /\ RecordsOf(s, c)[k].agent = s.calls[c].agent
            /\ RecordsOf(s, c)[k].mode = s.calls[c].mode
            /\ RecordsOf(s, c)[k].model = MODEL_MATRIX[s.calls[c].mode][s.calls[c].agent].model
            /\ RecordsOf(s, c)[k].retriesUsed = k - 1
            /\ k < Len(RecordsOf(s, c)) => ~RecordsOf(s, c)[k].ok
  /\ DOMAIN s.local.enhancedImages \in {{}, 0..(s.req.images - 1)}
  /\ \A k \in DOMAIN s.local.enhancedImages :
       s.local.enhancedImages[k].index \in {-1, k}
  /\ s.local.understanding.by = "default" =>
       s.local.understanding = buildFallbackUnderstanding(s.req)
  /\ s.local.copy.by = "default" => s.local.copy = DefaultCopy(s.req)
  /\ s.pc = "done" =>
       /\ s.response.traceId = s.traceId
       /\ s.response.debugInfo.llmTrace = s.traces
       /\ s.response.variants[1].enhanced_images_base64 = s.local.enhancedImages
       /\ s.response.variants[1].copy = s.local.copy

\* C29: for any interleaving of two concurrent invocations, each
\* invocation's trace holds exactly the records of its own attempts and
\* none of the other's, and its mode, its intermediate results and its
\* enhanced images are those of its own request.
C29_Isolation ==
  /\ Own(Me)
  /\ Own(other)

\* the two invocations took turns and both returned: the quality-mode one
\* with fast-mode fallback records in its trace, the fast-mode one with
\* records of mode fast only
C29_Witness ==
  /\ pc = "done" /\ other.pc = "done"
  /\ mode = "quality" /\ other.mode = "fast"
  /\ \E k \in 1..Len(traces) : traces[k].mode = "fast" /\ traces[k].retriesUsed = 1
  /\ \E k \in 1..Len(traces) : traces[k].mode = "quality" /\ ~traces[k].ok
  /\ \E k \in 1..Len(other.traces) : ~other.traces[k].ok
  /\ Len(traces) # Len(other.traces)

\* --- C31
\* the entries of the per-image scores and of the verdicts for image k
ScoresOf(k) == {j \in 1..Len(local.perImageScores) : local.perImageScores[j].index = k}

\* C31: when the QA evaluator answered for an image, the verdict of the
\* guardrail keeps OK, COLOR_CAST and ARTIFACTS as answered and turns
\* NEEDS_RECOMPOSE and NEEDS_CLEANUP into TOO_WEAK_CHANGE; the pass flag and
\* the score are the ones answered.
C31_QaVerdictMapping ==
  \A a \in 1..Len(local.answered) :
     LET ans == local.answered[a]
     IN ans.agent = "IMAGE_QA" =>
          /\ ScoresOf(ans.index) # {}
          /\ \A j \in ScoresOf(ans.index) :
               /\ ans.out.verdict \in {"OK", "COLOR_CAST", "ARTIFACTS"} =>
                    local.perImageScores[j].verdict = ans.out.verdict
               /\ ans.out.verdict \in {"NEEDS_RECOMPOSE", "NEEDS_CLEANUP"} =>
                    local.perImageScores[j].verdict = "TOO_WEAK_CHANGE"
               /\ local.perImageScores[j].score = ans.out.score
               /\ local.guards[j].pass = ans.out.pass

\* the QA evaluator of a quality-mode invocation answered NEEDS_CLEANUP
\* with pass = true, and the score list holds TOO_WEAK_CHANGE with score 90
C31_Witness ==
  /\ pc = "done"
  /\ mode = "quality"
  /\ Len(local.answered) = 1
  /\ local.answered[1].agent = "IMAGE_QA"
  /\ local.answered[1].out.verdict = "NEEDS_CLEANUP"
  /\ local.answered[1].out.pass
  /\ local.perImageScores = <<[index |-> 0, score |-> 90, verdict |-> "TOO_WEAK_CHANGE"]>>

\* --- C32
\* C32: every verdict in the per-image scores, under either evaluator and
\* in either mode, is one of OK, COLOR_CAST, ARTIFACTS, TOO_WEAK_CHANGE,
\* WORSE_THAN_ORIGINAL.
C32_VerdictsShared ==
  \A j \in 1..Len(local.perImageScores) : local.perImageScores[j].verdict \in SharedVerdicts

\* --- C33
\* C33: when every attempt of the Empathic Reply stage has failed, the reply
\* is the template of the request's language, whether or not the raw text
\* is empty.
C33_ReplyByLanguage ==
  (/\ pc = "done"
   /\ \A c \in CallIds : calls[c].site \in {"empathy", "empathy_fast"} => CallFailed(c))
    => response.empathic_reply.kind = (IF req.language = "zh" THEN "template_zh"
                                       ELSE "template_en")

\* --- C34
\* C34: a router call for a (mode, stage) pair without a spec makes no
\* backend attempt and appends no trace record, so every call in the trace
\* has a spec; and an error that propagates out of runOrchestrator is a
\* missing-spec error.
C34_OnlyMissingSpecPropagates ==
  /\ \A c \in CallIds : matrix[calls[c].mode][calls[c].agent] # NoSpec
  /\ \A k \in 1..Len(traces) : matrix[traces[k].mode][traces[k].agent] # NoSpec
  /\ pc = "failed" => lastError.msg = "Missing model spec"

\* --- C35
\* the most trace records an invocation of mode m for n images can make
TraceBound(m, n) == IF m = "fast" THEN 8 + 6 * n ELSE 19 + 11 * n

\* C35: every invocation whose backend attempts all return or throw comes
\* to its end, and at every moment its trace holds at most 8 + 6n records
\* in fast mode and at most 19 + 11n records in quality mode, n being the
\* number of source images.
C35_Terminates ==
  /\ <>(pc = "done")
  /\ [](Len(traces) <= TraceBound(mode, req.images))

\* a quality-mode invocation for one image that ended with 30 trace records
C35_Witness ==
  /\ pc = "done"
  /\ mode = "quality"
  /\ req.images = 1
  /\ Len(traces) = 30

\* --- C36
\* the guardrail rejected image k and every attempt of its rescue failed
RescueFailed(k) ==
  /\ \E j \in GuardsOf(k) : ~local.guards[j].pass
  /\ ImageCalls({"rescue"}, k) # {}
  /\ \A c \in ImageCalls({"rescue"}, k) : CallFailed(c)

\* C36: when the guardrail returned pass = false for image k and every
\* rescue attempt failed, the final enhanced image of k is the first
\* enhancement, the one the guardrail rejected (the output of the
\* generation call that succeeded), not the original source image.
C36_FailedRescueKeepsFirst ==
  \A k \in ImageIndexes(req) :
     (Finished(k) /\ RescueFailed(k)) =>
        /\ local.enhancedImages[k] # Original(k)
        /\ local.enhancedImages[k] =
             (IF \E c \in ImageCalls({"imagegen"}, k) : CallSucceeded(c)
              THEN Generated(k, "primary") ELSE Generated(k, "fast"))

\* the guardrail rejected the image of a fast-mode invocation and the three
\* rescue attempts under quality failed
C36_Witness ==
  /\ pc = "done"
  /\ mode = "fast"
  /\ RescueFailed(0)
  /\ \E c \in ImageCalls({"rescue"}, 0) : Len(CallRecords(c)) = 3
  /\ local.enhancedImages[0] = Generated(0, "primary")

\* --- C37
\* an enhanced image was produced for image k, by the active-mode generation
\* call or by its fast-mode fallback
Produced(k) == \E c \in ImageCalls(GenSites, k) : CallSucceeded(c)

\* C37: the per-image score list has exactly one entry for every image for
\* which an enhanced image was produced and none for an image whose
\* generation failed completely or that had no plan; its entries are in
\* strictly increasing image index, and an automatic pass contributes an
\* entry with score 0 and verdict OK.
C37_ScoreList ==
  /\ \A k \in ImageIndexes(req) :
       /\ Finished(k) => Cardinality(ScoresOf(k)) = (IF Produced(k) THEN 1 ELSE 0)
       /\ ~Produced(k) => ScoresOf(k) = {}
       /\ (local.directorOut.by # "none" /\ ~HasPlan(k)) => ScoresOf(k) = {}
  /\ \A j \in 1..Len(local.perImageScores) :
       /\ local.perImageScores[j].index \in ImageIndexes(req)
       /\ \A h \in 1..(j - 1) : local.perImageScores[h].index < local.perImageScores[j].index
       /\ local.guards[j].index = local.perImageScores[j].index
       /\ local.guards[j].by = "default" =>
            local.perImageScores[j].score = 0 /\ local.perImageScores[j].verdict = "OK"

\* of two images, the generation of the first failed completely and the
\* second was passed automatically after its guardrail call failed: the
\* list holds the one entry of the second image
C37_Witness ==
  /\ pc = "done"
  /\ req.images = 2
  /\ HasPlan(0) /\ ~Produced(0)
  /\ \E c \in ImageCalls({"guardrail"}, 1) : CallFailed(c)
  /\ local.perImageScores = <<[index |-> 1, score |-> 0, verdict |-> "OK"]>>

ModeOfCall(c) ==
  CASE calls[c].site \in FastSites -> "fast"
    [] calls[c].site = "rescue"    -> IF mode = "fast" THEN "quality" ELSE mode
    [] OTHER                       -> mode

\* C39: every trace record agrees with the configuration table: its mode is
\* the mode its attempt was made under, its model and its temperature are
\* those of the table's entry for that mode and its stage, and its retry
\* index is the position of the attempt in its call, counted from 0, and
\* smaller than the retry budget of that entry.
C39_RecordsMatchTable ==
  /\ \A k \in 1..Len(traces) : \E c \in CallIds :
       calls[c].first <= k /\ k < calls[c].first + Len(CallRecords(c))
  /\ \A c \in CallIds : \A k \in 1..Len(CallRecords(c)) :
       LET rec == CallRecords(c)[k]
           entry == MODEL_MATRIX[rec.mode][rec.agent]
       IN /\ rec.mode = ModeOfCall(c)
          /\ entry # NoSpec
          /\ rec.model = entry.model
          /\ rec.temperature = entry.temperature
          /\ rec.retriesUsed = k - 1
          /\ rec.retriesUsed < entry.retries

\* the third rescue attempt of a fast-mode invocation: its record has mode
\* quality, the quality image model at temperature 0.55 and retry index 2
C39_Witness ==
  /\ pc = "done"
  /\ mode = "fast"
  /\ \E k \in 1..Len(traces) :
       traces[k] = [agent |-> "IMAGE_GEN", mode |-> "quality",
                    model |-> "gemini-3-pro-image-preview", temperature |-> 55,
                    retriesUsed |-> 2, ok |-> TRUE]

====
